---- MODULE Spec2Model ----
(***************************************************************************)
(* The chain engine of the STILL node (package blockchain): AddBlock,      *)
(* checkBlock, orphan insertion, alt-chain tips, CheckReorgs,              *)
(* checkDeorphanage, ApplyBlockToState and RemoveBlockFromState, over the  *)
(* buckets BLOCK, TOPO, STATE, INTX, OUTTX, TX and INFO.                   *)
(*                                                                         *)
(* One AddBlock call runs inside one database write transaction.  The      *)
(* handlers are written as operators over a transaction context `t` (the   *)
(* buckets as the open transaction sees them, the in-memory sync           *)
(* watermark, and the error the handler returned); the action AddBlockStep *)
(* commits the context when the handler returned nil and discards the      *)
(* bucket writes otherwise.                                                *)
(***************************************************************************)
EXTENDS Integers, Sequences, FiniteSets, TLC

VARIABLES
    BLOCK,      \* bucket BLOCK: hash -> stored block
    TOPO,       \* bucket TOPO: height -> hash
    bstate,     \* bucket STATE: address -> State
    stats,      \* INFO["stats"]
    mempool,    \* INFO["mempool"]: the set of pending txids
    INTX,       \* bucket INTX: address || incoming id -> txid or block hash
    OUTTX,      \* bucket OUTTX: address || outgoing id -> txid
    TXHEIGHT,   \* bucket TX: the height recorded with each transaction
    SyncHeight, \* Blockchain.SyncHeight (in memory, guarded by SyncMut)
    SyncDiff,   \* Blockchain.SyncDiff   (in memory, guarded by SyncMut)
    last,       \* what the last AddBlock call was given, how it ended and
                \* which stats it handed to the observers
    call,       \* the transaction or block a caller builds, encodes and
                \* prevalidates before it reaches the chain
    proc,       \* the shutdown flag, the database handle and the threads
                \* of the node that use them
    now         \* time.Now(), in the unit the model counts time in

vars == <<BLOCK, TOPO, bstate, stats, mempool, INTX, OUTTX, TXHEIGHT,
          SyncHeight, SyncDiff, last, call, proc, now>>

----------------------------------------------------------------------------
(* Constants of the program and of the model                               *)

\* config.MINIDAG_ANCESTORS: the length of BlockHeader.Ancestors
MINIDAG_ANCESTORS == 3

\* config.BLOCK_REWARD_FEE_PERCENT
BLOCK_REWARD_FEE_PERCENT == 10

\* The most blocks the model lets the node store, genesis included.
MaxStored == 7

\* uint64 arithmetic wraps; the model keeps the wrap at a narrower width.
U64 == 2 ^ 16
Add64(a, b) == (a + b) % U64
Sub64(a, b) == ((a + U64) - b) % U64
Mul64(a, b) == (a * b) % U64

ZeroHash == "0"
GenesisAddress == "gov"
Addresses == {"gov", "m1", "m2"}

\* Partial maps (buckets, Go maps) are functions on the keys present.
Has(f, k) == k \in DOMAIN f
Put(f, k, v) == [x \in (DOMAIN f) \cup {k} |-> IF x = k THEN v ELSE f[x]]
Del(f, k) == [x \in (DOMAIN f) \ {k} |-> f[x]]
EmptyMap == [x \in {} |-> 0]

----------------------------------------------------------------------------
(* Transactions known to the node (bucket TX).                             *)

Tx(sender, recipient, nonce, amount, fee) ==
    [Sender |-> sender, Recipient |-> recipient, Nonce |-> nonce,
     Amount |-> amount, Fee |-> fee]

\* t1: the first send of m1; t2: its second send; t3: a send of m2 that
\* needs more than a block reward; t4: a send of m1 whose amount is the
\* greatest uint64 (Prevalidate bounds the amount from below only); all
\* four are stored in bucket TX.
TX ==
    [x \in {"t1", "t2", "t3", "t4"} |->
        CASE x = "t1" -> Tx("m1", "m2", 1, 5, 2)
          [] x = "t2" -> Tx("m1", "gov", 2, 3, 2)
          [] x = "t3" -> Tx("m2", "m1", 1, 60, 2)
          [] x = "t4" -> Tx("m1", "m2", 1, U64 - 1, 2)]

\* buckGetTx: the transaction stored under a txid, or an error.
buckGetTx(txid) ==
    IF Has(TX, txid) THEN [err |-> "", tx |-> TX[txid]]
    ELSE [err |-> "unknown tx", tx |-> Tx("", "", 0, 0, 0)]

\* address.FromPubKey: the address of a public key; keys are named by it.
FromPubKey(pubkey) == pubkey

----------------------------------------------------------------------------
(* Blocks                                                                  *)

\* Commitment of a block: what a later block cites as a side block.  It is
\* built from the header without the side blocks and the difficulties.
Commitment(bl) ==
    [Nonce |-> bl.Nonce, Timestamp |-> bl.Timestamp,
     Recipient |-> bl.Recipient, Ancestors |-> bl.Ancestors]

\* BlockHeader.PrevHash
PrevHash(bl) == bl.Ancestors[1]

\* Block.Reward: the scheduled emission of a block, by height.
Reward(bl) == 40 - 2 * bl.Height

\* block.GetSupplyAtHeight: the sum of the rewards of heights 0..height.
RECURSIVE GetSupplyAtHeight(_)
GetSupplyAtHeight(height) ==
    IF height = 0 THEN Reward([Height |-> 0])
    ELSE Add64(GetSupplyAtHeight(height - 1), Reward([Height |-> height]))

\* GetNextDifficulty: the retargeting oracle checkBlock validates against.
GetNextDifficulty(prevBl) == 2

\* addGenesis: the fixed genesis block
Genesis ==
    [Height |-> 0, Timestamp |-> 1, Nonce |-> "G",
     Recipient |-> GenesisAddress,
     Ancestors |-> [i \in 1..MINIDAG_ANCESTORS |-> ZeroHash],
     SideBlocks |-> <<>>, Difficulty |-> 1, CumulativeDiff |-> 1,
     Transactions |-> <<>>]

\* The side-block credit and cumulative difficulty of a block on a parent
SideDiff(bl) == (bl.Difficulty * (2 * Len(bl.SideBlocks))) \div 3
NewCumDiff(bl, prevBl) == prevBl.CumulativeDiff + bl.Difficulty + SideDiff(bl)

----------------------------------------------------------------------------
(* The blocks peers may deliver.  Each is mined on a parent (its height,   *)
(* ancestors and, unless said otherwise, its difficulty and cumulative     *)
(* difficulty follow from it); a block is named by its hash.               *)

Recipe(prev, dts, miner, txs, sides, dcum) ==
    [prev |-> prev, dts |-> dts, miner |-> miner, txs |-> txs,
     sides |-> sides, dcum |-> dcum]

CandidateHashes ==
    {"A1", "E1", "M2", "B2", "A2", "N2", "R2", "T2", "O2",
     "B3", "C3", "X3", "Y3", "W3", "B4", "V2"}

\* A1 extends the genesis block; E1 forks at the genesis block and cites A1.
\* On A1: M2 and B2 are plain, A2 carries t1, N2 carries t2 (a nonce two
\* ahead), R2 carries t1 twice (a replay), T2 has its parent's timestamp and
\* O2 an older one.  On B2: B3 is plain, C3 cites B3, X3 carries t1, Y3
\* carries t2, W3 claims a cumulative difficulty one too high.  B4 extends B3.
\* V2, on A1, carries t4.
\*
\* The blocks that cite side blocks already in their ancestor window: P2, on
\* A1, cites its parent A1; on E1 (which cites A1): D2 cites A1 again and
\* F2 is plain; on F2: H3 cites A1 and K3 cites E1.  Z1, on the genesis
\* block, cites A1 and names A1 in an ancestor list of its own making.  Q1,
\* on the genesis block, cites A1 twice.
SideCandidateHashes == {"A1", "E1", "P2", "D2", "F2", "H3", "K3", "Z1", "Q1"}

Recipes ==
    [h \in CandidateHashes \cup SideCandidateHashes |->
        CASE h = "A1" -> Recipe("G", 1, "m1", <<>>, <<>>, 0)
          [] h = "E1" -> Recipe("G", 1, "m2", <<>>, <<"A1">>, 0)
          [] h = "M2" -> Recipe("A1", 1, "m1", <<>>, <<>>, 0)
          [] h = "B2" -> Recipe("A1", 1, "m2", <<>>, <<>>, 0)
          [] h = "A2" -> Recipe("A1", 1, "m2", <<"t1">>, <<>>, 0)
          [] h = "N2" -> Recipe("A1", 1, "m2", <<"t2">>, <<>>, 0)
          [] h = "R2" -> Recipe("A1", 1, "m2", <<"t1", "t1">>, <<>>, 0)
          [] h = "T2" -> Recipe("A1", 0, "m1", <<>>, <<>>, 0)
          [] h = "O2" -> Recipe("A1", -1, "m1", <<>>, <<>>, 0)
          [] h = "B3" -> Recipe("B2", 1, "m2", <<>>, <<>>, 0)
          [] h = "C3" -> Recipe("B2", 1, "m1", <<>>, <<"B3">>, 0)
          [] h = "X3" -> Recipe("B2", 1, "m1", <<"t1">>, <<>>, 0)
          [] h = "Y3" -> Recipe("B2", 1, "m1", <<"t2">>, <<>>, 0)
          [] h = "W3" -> Recipe("B2", 1, "m2", <<>>, <<>>, 1)
          [] h = "B4" -> Recipe("B3", 1, "m1", <<>>, <<>>, 0)
          [] h = "V2" -> Recipe("A1", 1, "m2", <<"t4">>, <<>>, 0)
          [] h = "P2" -> Recipe("A1", 1, "m2", <<>>, <<"A1">>, 0)
          [] h = "D2" -> Recipe("E1", 1, "m1", <<>>, <<"A1">>, 0)
          [] h = "F2" -> Recipe("E1", 1, "m2", <<>>, <<>>, 0)
          [] h = "H3" -> Recipe("F2", 1, "m1", <<>>, <<"A1">>, 0)
          [] h = "K3" -> Recipe("F2", 1, "m1", <<>>, <<"E1">>, 0)
          [] h = "Z1" -> Recipe("G", 1, "m2", <<>>, <<"A1">>, 0)
          [] h = "Q1" -> Recipe("G", 1, "m1", <<>>, <<"A1", "A1">>, 0)]

Hashes == CandidateHashes \cup SideCandidateHashes \cup {"G"}

\* the block mined as h, by the recipe r, on the parent p, citing sides
Mined(h, r, p, sides) ==
    [Height |-> p.Height + 1,
     Timestamp |-> p.Timestamp + r.dts,
     Nonce |-> h,
     Recipient |-> r.miner,
     Ancestors |-> [i \in 1..MINIDAG_ANCESTORS |->
                       IF i = 1 THEN r.prev ELSE p.Ancestors[i - 1]],
     SideBlocks |-> sides,
     Difficulty |-> 2,
     CumulativeDiff |-> p.CumulativeDiff + 2
                        + ((4 * Len(sides)) \div 3) + r.dcum,
     Transactions |-> r.txs]

\* The header's ancestor list is the miner's to fill in: Z1 names its
\* parent first, as PrevHash needs, and A1 and the genesis block after it.
Forged(bl) ==
    IF bl.Nonce = "Z1" THEN [bl EXCEPT !.Ancestors = <<"G", "A1", "G">>]
    ELSE bl

RECURSIVE Candidate(_)
Candidate(h) ==
    IF h = "G" THEN Genesis
    ELSE Forged(Mined(h, Recipes[h], Candidate(Recipes[h].prev),
                      [i \in 1..Len(Recipes[h].sides) |->
                          Commitment(Candidate(Recipes[h].sides[i]))]))

BlockOf == [h \in Hashes |-> Candidate(h)]

\* Block.Hash: the hash of the block's serialization, which covers every
\* field, the difficulties included.  Every block carries the nonce of the
\* candidate it was mined as; a content that is not that candidate's (a
\* stored block whose cumulative difficulty was rewritten) hashes to a value
\* that names no candidate.
Hash(bl) == IF BlockOf[bl.Nonce] = bl THEN bl.Nonce ELSE "?"

----------------------------------------------------------------------------
(* Buckets read through a transaction context t                            *)

\* GetBlock: the stored block, or an error and an empty block
GetBlock(t, hash) ==
    IF Has(t.BLOCK, hash) THEN [err |-> "", bl |-> t.BLOCK[hash]]
    ELSE [err |-> "block not found", bl |-> Genesis]

\* buckGetTopo / GetTopo: the hash at a height, or an error and the zero hash
GetTopo(t, height) ==
    IF Has(t.TOPO, height) THEN [err |-> "", hash |-> t.TOPO[height]]
    ELSE [err |-> "unknown block", hash |-> ZeroHash]

ZeroState == [Balance |-> 0, LastNonce |-> 0, LastIncoming |-> 0]

\* buckGetState / GetState: the state of an address, or an error and &State{}
buckGetState(t, addr) ==
    IF Has(t.bstate, addr) THEN [err |-> "", s |-> t.bstate[addr]]
    ELSE [err |-> "address not in state", s |-> ZeroState]

\* buckSetState / SetState
buckSetState(t, addr, s) == [t EXCEPT !.bstate = Put(t.bstate, addr, s)]

\* SetTxTopoInc: INTX[addr || incid] := txid
SetTxTopoInc(t, txid, addr, incid) ==
    [t EXCEPT !.INTX = Put(@, <<addr, incid>>, txid)]

\* SetTxTopoOut: OUTTX[addr || outid] := txid
SetTxTopoOut(t, txid, addr, outid) ==
    [t EXCEPT !.OUTTX = Put(@, <<addr, outid>>, txid)]

\* SetTxHeight: the height recorded with a stored transaction
SetTxHeight(t, txid, height) == [t EXCEPT !.TXHEIGHT = Put(@, txid, height)]

\* Log.*: the handlers' log lines the properties refer to
Log(t, line) == [t EXCEPT !.log = t.log \cup {line}]

\* a handler returning err
Fail(t, err) == [t EXCEPT !.err = err]

\* bc.BlockQueue.Update(func(qt *QueueTx) { ... }) with one call on qt in the
\* closure: the queue lock is taken, the closure runs and the lock is
\* released.  The queue is a field of the Blockchain object; the update is
\* noted with the locks the calling thread holds when it takes the queue's.
QueueUpdate(t, op, height, hash) ==
    [t EXCEPT !.queue = Append(@, [op |-> op, Height |-> height,
                                   Hash |-> hash, held |-> t.held])]

removeFromQueue(t, hash, height) == QueueUpdate(t, "RemoveBlock", height, hash)

queuedBlockDownloaded(t, hash, height) ==
    QueueUpdate(t, "BlockDownloaded", height, hash)

----------------------------------------------------------------------------
(* checkBlock                                                              *)

SetMax(S) == CHOOSE x \in S : \A y \in S : y <= x

\* checkBlock, "check ancestors": the loop over side.Ancestors.  heightDiff
\* is -1 until one entry of side.Ancestors is found in bl.Ancestors at the
\* same or a later index (the scan has no break: the last index wins).
RECURSIVE checkSideAncestors(_, _, _, _)
checkSideAncestors(bl, side, ancid, heightDiff) ==
    IF ancid > Len(side.Ancestors)
    THEN IF heightDiff = -1 THEN "common block not found" ELSE ""
    ELSE LET anc == side.Ancestors[ancid] IN
         IF heightDiff = -1
         THEN LET hits == {vid \in 1..Len(bl.Ancestors) :
                              vid >= ancid /\ bl.Ancestors[vid] = anc}
              IN  checkSideAncestors(bl, side, ancid + 1,
                      IF hits = {} THEN -1 ELSE SetMax(hits) - ancid)
         ELSE IF ancid + heightDiff > Len(bl.Ancestors) THEN ""
         ELSE IF anc # bl.Ancestors[ancid + heightDiff]
              THEN "subsequent block isn't valid"
         ELSE checkSideAncestors(bl, side, ancid + 1, heightDiff)

\* checkBlock, "then check in previous ancestors": bl.Ancestors[1:]
RECURSIVE checkSideInAncestors(_, _, _, _)
checkSideInAncestors(t, bl, side, i) ==
    IF i > Len(bl.Ancestors) THEN ""
    ELSE LET g == GetBlock(t, bl.Ancestors[i]) IN
         IF g.err # "" THEN g.err
         ELSE IF side = Commitment(g.bl)
              THEN "side block was already included (3)"
         ELSE IF \E k \in 1..Len(g.bl.SideBlocks) : side = g.bl.SideBlocks[k]
              THEN "side block was already included (4)"
         ELSE IF g.bl.Height = 0 THEN ""
         ELSE checkSideInAncestors(t, bl, side, i + 1)

\* checkBlock, the body of the loop over bl.SideBlocks
checkSideBlock(t, bl, prevBl, side) ==
    LET anc == checkSideAncestors(bl, side, 1, -1) IN
    IF anc # "" THEN anc
    ELSE IF side = Commitment(prevBl)
         THEN "side block was already included (1)"
    ELSE IF \E k \in 1..Len(prevBl.SideBlocks) : side = prevBl.SideBlocks[k]
         THEN "side block was already included (2)"
    ELSE IF prevBl.Height > 0 THEN checkSideInAncestors(t, bl, side, 2)
    ELSE ""

RECURSIVE checkSideBlocks(_, _, _, _)
checkSideBlocks(t, bl, prevBl, k) ==
    IF k > Len(bl.SideBlocks) THEN ""
    ELSE LET e == checkSideBlock(t, bl, prevBl, bl.SideBlocks[k]) IN
         IF e # "" THEN e ELSE checkSideBlocks(t, bl, prevBl, k + 1)

\* checkBlock, the timestamp rule: the error the rule gives, "" when none
checkTimestamp(bl, prevBl) ==
    IF prevBl.Timestamp > bl.Timestamp
    THEN "block has timestamp that's older than previous block"
    ELSE ""

\* checkBlock's end without the comparison of the cumulative difficulty
checkCumulativeDiffSkipped(bl, prevBl, e) == e

\* checkBlock, "cumulative difficulty": reached when the side blocks gave
\* the error e
checkCumulativeDiff(bl, prevBl, e) ==
    IF e # "" THEN e
    ELSE IF bl.CumulativeDiff # NewCumDiff(bl, prevBl)
         THEN "block has invalid cumulative diff"
    ELSE ""

\* checkBlock: the error it returns, "" for nil
checkBlock(t, bl, prevBl) ==
    IF bl.Difficulty # GetNextDifficulty(prevBl) THEN "block has invalid diff"
    ELSE IF bl.Height # prevBl.Height + 1 THEN "block has invalid height"
    ELSE IF checkTimestamp(bl, prevBl) # "" THEN checkTimestamp(bl, prevBl)
    ELSE checkCumulativeDiff(bl, prevBl, checkSideBlocks(t, bl, prevBl, 1))

----------------------------------------------------------------------------
(* ApplyBlockToState                                                       *)

SeqRange(q) == {q[i] : i \in 1..Len(q)}

\* The sender's side of one transaction without the nonce comparison
applyTxCheckBalanceOnly(senderState, tx) ==
    IF senderState.Balance < Add64(tx.Amount, tx.Fee)
    THEN "transaction spends too much money"
    ELSE ""

\* The sender's side of one transaction: the balance and nonce checks
applyTxCheck(senderState, tx) ==
    IF senderState.Balance < Add64(tx.Amount, tx.Fee)
    THEN "transaction spends too much money"
    ELSE IF tx.Nonce # Add64(senderState.LastNonce, 1)
         THEN "transaction has unexpected nonce"
    ELSE ""

\* ApplyBlockToState, "validate and apply transactions": the loop from
\* transaction i on; the result is the context and the fees summed so far.
RECURSIVE applyTransactions(_, _, _, _)
applyTransactions(t, bl, i, totalFee) ==
    IF i > Len(bl.Transactions) THEN [t |-> t, totalFee |-> totalFee]
    ELSE
    LET v == bl.Transactions[i]
        \* the recipient's state, the three indexes and the height written
        written(t1, tx, senderAddr, senderState, recState) ==
            buckSetState(
                SetTxHeight(
                    SetTxTopoOut(
                        SetTxTopoInc(t1, v, tx.Recipient,
                                     recState.LastIncoming),
                        v, senderAddr, senderState.LastNonce),
                    v, bl.Height),
                tx.Recipient, recState)
        \* "add the funds to recipient": rec is the recipient as read
        credited(t1, tx, senderAddr, senderState, rec) ==
            written(t1, tx, senderAddr, senderState,
                    [(IF rec.err # "" THEN ZeroState ELSE rec.s) EXCEPT
                        !.Balance = Add64(@, tx.Amount),
                        !.LastIncoming = Add64(@, 1)])
        \* "apply the sender state": t1 is the context with it written
        debited(t1, tx, senderAddr, senderState) ==
            credited(t1, tx, senderAddr, senderState,
                     buckGetState(t1, tx.Recipient))
        applied(tx, senderAddr, senderState) ==
            debited(buckSetState(t, senderAddr, senderState),
                    tx, senderAddr, senderState)
        checked(tx, senderAddr, sender, chk) ==
            IF sender.err # ""
            THEN [t |-> Fail(t, sender.err), totalFee |-> totalFee]
            ELSE IF chk # ""
                 THEN [t |-> Fail(Log(t, chk), chk), totalFee |-> totalFee]
            ELSE applyTransactions(
                     applied(tx, senderAddr,
                             [sender.s EXCEPT
                                 !.Balance = Sub64(@, Add64(tx.Amount, tx.Fee)),
                                 !.LastNonce = Add64(@, 1)]),
                     bl, i + 1, Add64(totalFee, tx.Fee))
        sent(tx, senderAddr, sender) ==
            checked(tx, senderAddr, sender, applyTxCheck(sender.s, tx))
        found(g) ==
            IF g.err # "" THEN [t |-> Fail(t, g.err), totalFee |-> totalFee]
            ELSE sent(g.tx, FromPubKey(g.tx.Sender),
                      buckGetState(t, FromPubKey(g.tx.Sender)))
    IN  found(buckGetTx(v))

\* The coinbase split of a block: the governance and the miner reward
GovernanceReward(bl, totalFee) ==
    Mul64(Add64(Reward(bl), totalFee), BLOCK_REWARD_FEE_PERCENT) \div 100
MinerReward(bl, totalFee) ==
    Sub64(Add64(Reward(bl), totalFee), GovernanceReward(bl, totalFee))

\* ApplyBlockToState, "add block reward to coinbase transaction"
applyCoinbase(t, bl, totalFee) ==
    LET governance(t1) ==
            buckSetState(t1, GenesisAddress,
                [buckGetState(t1, GenesisAddress).s EXCEPT
                    !.Balance = Add64(@, GovernanceReward(bl, totalFee))])
        miner(minerState) ==
            governance(
                SetTxTopoInc(buckSetState(t, bl.Recipient, minerState),
                             Hash(bl), bl.Recipient, minerState.LastIncoming))
    IN  miner([buckGetState(t, bl.Recipient).s EXCEPT
                  !.Balance = Add64(@, MinerReward(bl, totalFee)),
                  !.LastIncoming = Add64(@, 1)])

\* ApplyBlockToState, "update some stats": the sync watermark
applySync(t, bl) ==
    IF t.SyncDiff < bl.CumulativeDiff
    THEN [t EXCEPT !.SyncHeight = bl.Height, !.SyncDiff = bl.CumulativeDiff]
    ELSE t

\* ApplyBlockToState after the transaction loop, which ended in r
applyRewards(r, bl) ==
    IF r.t.err # "" THEN r.t
    ELSE applySync(applyCoinbase(r.t, bl, r.totalFee), bl)

ApplyBlockToState(t, bl) ==
    applyRewards(applyTransactions(
                     [t EXCEPT !.mempool = @ \ SeqRange(bl.Transactions)],
                     bl, 1, 0),
                 bl)

----------------------------------------------------------------------------
(* RemoveBlockFromState                                                    *)

\* "iterate transactions to find tx fee sum": the first error and the sum
RECURSIVE removeFeeSum(_, _, _)
removeFeeSum(bl, i, totalFee) ==
    IF i > Len(bl.Transactions) THEN [err |-> "", totalFee |-> totalFee]
    ELSE LET g == buckGetTx(bl.Transactions[i]) IN
         IF g.err # "" THEN [err |-> g.err, totalFee |-> totalFee]
         ELSE removeFeeSum(bl, i + 1, Add64(totalFee, g.tx.Fee))

\* "undo coinbase transaction"
removeCoinbase(t, bl, totalFee) ==
    LET miner == buckGetState(t, bl.Recipient)
        minerState == [miner.s EXCEPT
                          !.Balance = Sub64(@, MinerReward(bl, totalFee)),
                          !.LastIncoming = Sub64(@, 1)]
        t1 == buckSetState(t, bl.Recipient, minerState)
        gov == buckGetState(t1, GenesisAddress)
        governanceState == [gov.s EXCEPT
                          !.Balance = Sub64(@, GovernanceReward(bl, totalFee))]
    IN  IF miner.err # "" THEN Fail(t, "coinbase reward account unknown")
        ELSE IF miner.s.Balance < MinerReward(bl, totalFee)
             THEN Fail(t, "balance of coinbase account is too small")
        ELSE IF miner.s.LastIncoming = 0
             THEN Fail(t, "coinbase LastIncoming must not be zero")
        ELSE IF gov.err # "" THEN Fail(t1, "coinbase reward account unknown")
        ELSE IF gov.s.Balance < GovernanceReward(bl, totalFee)
             THEN Fail(t1, "balance of coinbase account is too small")
        ELSE buckSetState(t1, GenesisAddress, governanceState)

\* "remove transactions in reverse order": txs is made with
\* len(bl.Transactions) zero entries and the transactions are appended to
\* it, so the loop meets the transactions first, last to first (i is the
\* index in bl.Transactions), and then an entry whose Tx is nil, where
\* tx.Sender panics.
RECURSIVE removeTransactions(_, _, _)
removeTransactions(t, bl, i) ==
    IF i < 1
    THEN IF Len(bl.Transactions) > 0 THEN Fail(t, "panic") ELSE t
    ELSE
    LET tx == buckGetTx(bl.Transactions[i]).tx
        senderAddr == FromPubKey(tx.Sender)
        rec == buckGetState(t, tx.Recipient)
        recState == [rec.s EXCEPT !.Balance = Sub64(@, tx.Amount),
                                  !.LastIncoming = Sub64(@, 1)]
        t1 == buckSetState(t, tx.Recipient, recState)
        sender == buckGetState(t1, senderAddr)
        senderState == [sender.s EXCEPT
                           !.Balance = Add64(Add64(@, tx.Amount), tx.Fee),
                           !.LastNonce = Sub64(@, 1)]
        t2 == SetTxHeight(buckSetState(t1, senderAddr, senderState),
                          bl.Transactions[i], bl.Height)
    IN  IF rec.err # "" THEN Fail(t, rec.err)
        ELSE IF rec.s.Balance < Add64(tx.Amount, tx.Fee)
             THEN Fail(t, "recipient balance is smaller than tx amount + fee")
        ELSE IF rec.s.LastIncoming = 0
             THEN Fail(t, "recipient LastIncoming must not be zero")
        ELSE IF sender.err # "" THEN Fail(t1, sender.err)
        ELSE IF sender.s.LastNonce = 0
             THEN Fail(t1, "sender last nonce must not be zero")
        ELSE removeTransactions(t2, bl, i - 1)

\* RemoveBlockFromState after the coinbase is undone, in t1
removeBlockTransactions(t1, bl) ==
    IF t1.err # "" THEN t1
    ELSE removeTransactions(t1, bl, Len(bl.Transactions))

\* RemoveBlockFromState after the fee sum f is found
removeBlockCoinbase(t, bl, f) ==
    IF f.err # "" THEN Fail(t, f.err)
    ELSE removeBlockTransactions(removeCoinbase(t, bl, f.totalFee), bl)

RemoveBlockFromState(t, bl) == removeBlockCoinbase(t, bl, removeFeeSum(bl, 1, 0))

----------------------------------------------------------------------------
(* Block and stats writes                                                  *)

\* insertBlock: Block.Serialize is nil for a zero difficulty, and the
\* bucket then holds no data under the hash
insertBlock(t, bl, hash) ==
    IF bl.Difficulty = 0 THEN Fail(t, "blData is empty")
    ELSE [t EXCEPT !.BLOCK = Put(@, hash, bl)]

\* insertBlockMain: the block under its own hash, and its height's topo
insertBlockMain(t, bl) ==
    LET stored(hash) == [t EXCEPT !.BLOCK = Put(@, hash, bl),
                                  !.TOPO = Put(@, bl.Height, hash)]
    IN  stored(Hash(bl))

\* Stats.Serialize: the top, and the entries of the two maps, each with the
\* key it is found under
Entries(m) == {<<k, m[k]>> : k \in DOMAIN m}
SerializeStats(s) ==
    [TopHash |-> s.TopHash, TopHeight |-> s.TopHeight,
     CumulativeDiff |-> s.CumulativeDiff,
     Tips |-> Entries(s.Tips), Orphans |-> Entries(s.Orphans)]

\* DeserializeStats: the maps built again from their entries
FromEntries(es) ==
    [k \in {e[1] : e \in es} |-> (CHOOSE e \in es : e[1] = k)[2]]
DeserializeStats(d) ==
    [TopHash |-> d.TopHash, TopHeight |-> d.TopHeight,
     CumulativeDiff |-> d.CumulativeDiff,
     Tips |-> FromEntries(d.Tips), Orphans |-> FromEntries(d.Orphans)]

\* GetStats: INFO["stats"], deserialized
GetStats(t) == DeserializeStats(t.stats)

\* setStatsNoBroadcast: INFO["stats"] := s.Serialize()
setStatsNoBroadcast(t, s) == [t EXCEPT !.stats = SerializeStats(s)]

\* SetStats: unless the top height is 0 a goroutine is started that hands
\* the stats to the observers (SendStats); then the stats are written
SetStats(t, s) ==
    setStatsNoBroadcast(
        IF s.TopHeight # 0 THEN [t EXCEPT !.sent = @ \cup {s}] ELSE t, s)

AltchainTip(hash, height, cumulativeDiff) ==
    [Hash |-> hash, Height |-> height, CumulativeDiff |-> cumulativeDiff]

----------------------------------------------------------------------------
(* CheckReorgs                                                             *)

\* The selection a longest-chain rule would make: the tips compared by
\* height instead of by cumulative difficulty
BestTipsByHeight(s) ==
    LET above == {k \in DOMAIN s.Tips : s.Tips[k].Height > s.TopHeight}
    IN  {s.Tips[k] : k \in {j \in above : \A i \in above :
                     s.Tips[i].Height <= s.Tips[j].Height}}

\* "Check if a reorg is needed": the loop over stats.Tips keeps a tip only
\* when it is strictly heavier than the best so far, so it ends on a tip of
\* the greatest cumulative difficulty above the top's; which one of several
\* equal ones depends on the map's iteration order.
BestTips(s) ==
    LET above == {k \in DOMAIN s.Tips :
                     s.Tips[k].CumulativeDiff > s.CumulativeDiff}
    IN  {s.Tips[k] : k \in {j \in above : \A i \in above :
                     s.Tips[i].CumulativeDiff <= s.Tips[j].CumulativeDiff}}

\* step 1: walk the alt chain back from commonBlock to the main chain
RECURSIVE reorgStep1(_, _, _)
reorgStep1(t, commonBlock, hashes) ==
    LET commonBlockHash == PrevHash(commonBlock)
        g == GetBlock(t, commonBlockHash)
    IN  IF g.err # ""
        THEN [err |-> "reorg step 1: failed to get common block",
              common |-> commonBlockHash, hashes |-> hashes]
        ELSE IF g.bl.Height = 0
             THEN [err |-> "could not find common block",
                   common |-> commonBlockHash, hashes |-> hashes]
        ELSE IF GetTopo(t, g.bl.Height).hash = commonBlockHash
             THEN [err |-> "", common |-> commonBlockHash, hashes |-> hashes]
        ELSE reorgStep1(t, g.bl,
                 Append(hashes, [Hash |-> commonBlockHash, Block |-> g.bl]))

\* step 2, the loop: n is the block of the previous turn, nHash the next
\* hash to reverse; a turn that failed ends the loop with its error
RECURSIVE reorgUnwind(_, _, _, _)
reorgUnwind(t, n, nHash, commonBlockHash) ==
    IF t.err # "" THEN t
    ELSE IF nHash = commonBlockHash THEN t
    ELSE IF n.Height = 0 THEN Fail(t, "reorg: Block has height 0")
    ELSE LET g == GetBlock(t, nHash) IN
         IF g.err # "" THEN Fail(t, "failed to get block")
         ELSE reorgUnwind(
                  RemoveBlockFromState(
                      [t EXCEPT !.TOPO = Del(@, g.bl.Height)], g.bl),
                  g.bl, PrevHash(g.bl), commonBlockHash)

\* step 2: reverse the main chain down to the common block
reorgStep2(t, s, commonBlockHash) ==
    IF s.TopHash = commonBlockHash THEN t
    ELSE LET g == GetBlock(t, s.TopHash) IN
         IF g.err # "" THEN Fail(t, g.err)
         ELSE IF Hash(g.bl) = commonBlockHash THEN t
         ELSE reorgUnwind(t, g.bl, s.TopHash, commonBlockHash)

\* step 3, one block: checkBlock gave e on the context t1
reorgApplied(a, bl) ==
    IF a.err # "" THEN a
    ELSE QueueUpdate(a, "RemoveBlockByHeight", bl.Height, ZeroHash)

reorgApply(t1, bl, e) ==
    IF e # "" THEN Fail(Log(t1, "reorg invalid block"), e)
    ELSE reorgApplied(ApplyBlockToState(t1, bl), bl)

\* step 3: hashes[i], then the ones before it; a block that failed ends the
\* loop with its error
RECURSIVE reorgStep3(_, _, _)
reorgStep3(t, hashes, i) ==
    IF t.err # "" THEN t
    ELSE IF i < 1 THEN t
    ELSE LET bl == hashes[i].Block
             t1 == [t EXCEPT !.TOPO = Put(@, bl.Height, hashes[i].Hash)]
             g == GetBlock(t1, PrevHash(bl))
         IN  IF g.err # "" THEN Fail(t1, g.err)
             ELSE reorgStep3(reorgApply(t1, bl, checkBlock(t1, bl, g.bl)),
                             hashes, i - 1)

\* step 4: the stats are read again and swapped
reorgStep4(t, alt) ==
    LET swapped(s) ==
            [s EXCEPT !.Tips = Put(Del(s.Tips, alt.Hash), s.TopHash,
                                   AltchainTip(s.TopHash, s.TopHeight,
                                               s.CumulativeDiff)),
                      !.TopHash = alt.Hash,
                      !.CumulativeDiff = alt.CumulativeDiff,
                      !.TopHeight = alt.Height]
    IN  setStatsNoBroadcast(t, swapped(GetStats(t)))

\* the closure after step 3, which ended in t3
reorgSwap(t3, alt) == IF t3.err # "" THEN t3 ELSE reorgStep4(t3, alt)

\* the closure after step 1, which ended in s1
reorgFromCommon(t, s, alt, s1) ==
    IF s1.err # "" THEN Fail(t, s1.err)
    ELSE reorgSwap(reorgStep3(reorgStep2(t, s, s1.common),
                              s1.hashes, Len(s1.hashes)),
                   alt)

\* "reorganize the chain": the closure of CheckReorgs, for the chosen tip
reorganize(t, s, alt) ==
    LET g == GetBlock(t, alt.Hash) IN
    IF g.err # "" THEN Fail(t, g.err)
    ELSE reorgFromCommon(t, s, alt,
             reorgStep1(t, g.bl, <<[Hash |-> alt.Hash, Block |-> g.bl]>>))

\* CheckReorgs(tx, stats): the possible results [t, reorg]; t.err is the
\* error returned
reorgResult(r) ==
    IF r.err # "" THEN [t |-> Log(r, "Reorg failed"), reorg |-> FALSE]
    ELSE [t |-> Log(r, "Reorganize success"), reorg |-> TRUE]

CheckReorgs(t, s) ==
    IF BestTips(s) = {} THEN {[t |-> t, reorg |-> FALSE]}
    ELSE {IF alt.Hash = s.TopHash THEN [t |-> t, reorg |-> FALSE]
          ELSE reorgResult(reorganize(Log(t, "Reorg needed"), s, alt))
          : alt \in BestTips(s)}

----------------------------------------------------------------------------
(* Orphans, alt-chain and main-chain insertion, deorphanage                *)

\* time.Hour, "orphan blocks expire after 1 hour"
Hour == 2

\* addOrphanBlock asking the queue for the parent whether it is known or not
addOrphanBlockAlwaysQueued(t, bl, hash, parentKnown) ==
    LET orphan == [Expires |-> t.now + Hour, Hash |-> hash,
                   PrevHash |-> PrevHash(bl)]
        added(s) ==
            IF Has(s.Orphans, hash) THEN Fail(t, "Orphan already exists!")
            ELSE insertBlock(
                     Log(setStatsNoBroadcast(
                             QueueUpdate(t, "SetBlock", 0, PrevHash(bl)),
                             [s EXCEPT !.Orphans = Put(@, hash, orphan)]),
                         "Adding orphan block"),
                     bl, hash)
    IN  added(GetStats(t))

\* addOrphanBlock
addOrphanBlock(t, bl, hash, parentKnown) ==
    LET orphan == [Expires |-> t.now + Hour, Hash |-> hash,
                   PrevHash |-> PrevHash(bl)]
        added(s) ==
            IF Has(s.Orphans, hash) THEN Fail(t, "Orphan already exists!")
            ELSE insertBlock(
                     Log(setStatsNoBroadcast(
                             IF parentKnown THEN t
                             ELSE QueueUpdate(t, "SetBlock", 0, PrevHash(bl)),
                             [s EXCEPT !.Orphans = Put(@, hash, orphan)]),
                         "Adding orphan block"),
                     bl, hash)
    IN  added(GetStats(t))

\* addAltchainBlock, "check if the block extends one of the tips": the tip
\* found under the key prev_hash is changed in place, under that key
extendTips(s, bl, hash) ==
    IF Has(s.Tips, PrevHash(bl))
    THEN [s EXCEPT !.Tips[PrevHash(bl)] =
             AltchainTip(hash, Add64(@.Height, 1), bl.CumulativeDiff)]
    ELSE [s EXCEPT !.Tips =
             Put(@, hash, AltchainTip(hash, bl.Height, bl.CumulativeDiff))]

\* What addAltchainBlock makes of the result of its CheckReorgs call: the
\* returned error is dropped (a panic is not a return value)
altchainReorgResult(t) == IF t.err = "panic" THEN t ELSE [t EXCEPT !.err = ""]

\* addAltchainBlock: the possible contexts it ends in
addAltchainBlock(t, bl, hash) ==
    LET s == extendTips(GetStats(t), bl, hash)
        t1 == insertBlock(Log(t, "Adding block as alternative"), bl, hash)
    IN  IF t1.err # "" THEN {t1}
        ELSE {altchainReorgResult(r.t)
              : r \in CheckReorgs(setStatsNoBroadcast(t1, s), s)}

\* addMainchainBlock after ApplyBlockToState, which ended in t1
addMainchainTop(t1, bl, hash) ==
    IF t1.err # "" THEN t1
    ELSE insertBlockMain(
             SetStats(Log(t1, "Adding mainchain block"),
                      [GetStats(t1) EXCEPT
                          !.TopHash = hash,
                          !.TopHeight = bl.Height,
                          !.CumulativeDiff = bl.CumulativeDiff]),
             bl)

\* addMainchainBlock
addMainchainBlock(t, bl, hash) ==
    addMainchainTop(ApplyBlockToState(t, bl), bl, hash)

\* deorphanBlock without the call on the promoted block: only the orphans
\* whose PrevHash is prevHash are promoted, their own children are not
RECURSIVE deorphanBlockShallow(_, _, _, _)
deorphanBlockShallow(t, prev, prevHash, s) ==
    LET kids == {i \in DOMAIN s.Orphans : s.Orphans[i].PrevHash = prevHash} IN
    IF kids = {} THEN [t |-> t, stats |-> s]
    ELSE
    LET i == CHOOSE k \in kids : TRUE
        h2 == s.Orphans[i].Hash
        g == GetBlock(t, h2)
        cdiff == prev.CumulativeDiff + g.bl.Difficulty
                 + ((g.bl.Difficulty * (Len(g.bl.SideBlocks) * 2)) \div 3)
        bl == [g.bl EXCEPT !.CumulativeDiff = cdiff]
        t1 == IF cdiff # g.bl.CumulativeDiff
              THEN [insertBlock(t, bl, h2) EXCEPT !.err = t.err]
              ELSE t
        s1 == [s EXCEPT
                  !.Orphans = Del(@, i),
                  !.Tips = Put(Del(@, prevHash), h2,
                               AltchainTip(h2, bl.Height, bl.CumulativeDiff))]
    IN  IF g.err # "" THEN [t |-> Fail(t, g.err), stats |-> s]
        ELSE deorphanBlockShallow(Log(t1, "deorphaning"), prev, prevHash, s1)

\* deorphanBlock: every orphan whose PrevHash is prevHash gets its
\* cumulative difficulty from prev, is stored again when that changed it,
\* leaves the orphans, becomes a tip in place of prevHash's, and is
\* searched for children in turn.  The result: the context (BLOCK) and stats.
RECURSIVE deorphanBlock(_, _, _, _)
deorphanBlock(t, prev, prevHash, s) ==
    LET kids == {i \in DOMAIN s.Orphans : s.Orphans[i].PrevHash = prevHash} IN
    IF kids = {} THEN [t |-> t, stats |-> s]
    ELSE
    LET i == CHOOSE k \in kids : TRUE
        v == s.Orphans[i]
        h2 == v.Hash
        g == GetBlock(t, h2)
        cdiff == prev.CumulativeDiff + g.bl.Difficulty
                 + ((g.bl.Difficulty * (Len(g.bl.SideBlocks) * 2)) \div 3)
        bl == [g.bl EXCEPT !.CumulativeDiff = cdiff]
        t1 == IF cdiff # g.bl.CumulativeDiff
              THEN [insertBlock(t, bl, h2) EXCEPT !.err = t.err]
              ELSE t
        s1 == [s EXCEPT
                  !.Orphans = Del(@, i),
                  !.Tips = Put(Del(@, prevHash), h2,
                               AltchainTip(h2, bl.Height, bl.CumulativeDiff))]
        sub == deorphanBlock(Log(t1, "deorphaning"), bl, h2, s1)
    IN  IF g.err # "" THEN [t |-> Fail(t, g.err), stats |-> s]
        ELSE deorphanBlock([sub.t EXCEPT !.err = t.err], prev, prevHash,
                           sub.stats)

\* cleanupTips: the tips that stay
cleanupTips(t, s) ==
    [s EXCEPT !.Tips =
        [k \in {i \in DOMAIN s.Tips :
                   ~(/\ GetTopo(t, s.Tips[i].Height).err = ""
                     /\ GetTopo(t, s.Tips[i].Height).hash = s.Tips[i].Hash)}
         |-> s.Tips[k]]]

\* checkDeorphanage after deorphanBlock, which ended in d: the stats are
\* saved, reorgs are checked and, after a reorg, the tips are cleaned up
deorphanageReorgs(d) ==
    IF d.t.err # "" THEN {d.t}
    ELSE {IF r.t.err = "" /\ r.reorg
          THEN SetStats(r.t, cleanupTips(r.t, GetStats(r.t)))
          ELSE r.t
          : r \in CheckReorgs(SetStats(d.t, d.stats), d.stats)}

\* checkDeorphanage without the reorg check after the promotion
checkDeorphanageNoReorg(t, bl, hash) ==
    LET d == deorphanBlock(t, bl, hash, GetStats(t))
    IN  IF d.t.err # "" THEN {d.t} ELSE {SetStats(d.t, d.stats)}

\* checkDeorphanage: the possible contexts it ends in
checkDeorphanage(t, bl, hash) ==
    deorphanageReorgs(deorphanBlock(t, bl, hash, GetStats(t)))

----------------------------------------------------------------------------
(* AddBlock                                                                *)

Path(t, p) == [t EXCEPT !.path = p]

\* AddBlock after addOrphanBlock, which ended in a: "mark orphan block as
\* downloaded in queue"
orphanAdded(a, bl, hash) ==
    IF a.err # "" THEN a ELSE queuedBlockDownloaded(a, hash, bl.Height)

\* AddBlock adding a checked block to either chain, whatever the top is
addCheckedEitherChain(t, bl, hash, e) ==
    IF e # "" THEN {Fail(Log(Path(t, "invalid"), e), e)}
    ELSE UNION {IF a.err # "" THEN {a} ELSE checkDeorphanage(a, bl, hash)
                : a \in {addMainchainBlock(
                             removeFromQueue(Path(t, "main"), hash, bl.Height),
                             bl, hash)}
                        \cup addAltchainBlock(
                                 queuedBlockDownloaded(Path(t, "alt"), hash,
                                                       bl.Height),
                                 bl, hash)}

\* AddBlock once checkBlock gave e: the block is added to the main chain
\* when its parent is the top and to an alt chain otherwise, and
\* checkDeorphanage follows
addChecked(t, bl, hash, e) ==
    IF e # "" THEN {Fail(Log(Path(t, "invalid"), e), e)}
    ELSE UNION {IF a.err # "" THEN {a} ELSE checkDeorphanage(a, bl, hash)
                : a \in IF PrevHash(bl) = GetStats(t).TopHash
                        THEN {addMainchainBlock(
                                  removeFromQueue(Path(t, "main"), hash,
                                                  bl.Height),
                                  bl, hash)}
                        ELSE addAltchainBlock(
                                 queuedBlockDownloaded(Path(t, "alt"), hash,
                                                       bl.Height),
                                 bl, hash)}

\* AddBlock without the duplicate test
addHashedNoDuplicateTest(t, bl, hash) ==
    LET prevHash == PrevHash(bl)
        p == GetBlock(t, prevHash)
    IN  IF p.err # ""
        THEN {orphanAdded(
                  addOrphanBlock(Path(t, "orphan"), bl, hash, FALSE),
                  bl, hash)}
        ELSE IF Has(GetStats(t).Orphans, prevHash)
             THEN {orphanAdded(
                       addOrphanBlock(Path(t, "orphan"), bl, hash, TRUE),
                       bl, hash)}
        ELSE addChecked(t, bl, hash, checkBlock(t, bl, p.bl))

\* AddBlock with hash := bl.Hash()
addHashed(t, bl, hash) ==
    LET prevHash == PrevHash(bl)
        p == GetBlock(t, prevHash)
    IN  IF Has(t.BLOCK, hash)
        THEN {Fail(Path(t, "duplicate"), "received duplicate block")}
        ELSE IF p.err # ""
             THEN {orphanAdded(
                       addOrphanBlock(Path(t, "orphan"), bl, hash, FALSE),
                       bl, hash)}
        ELSE IF Has(GetStats(t).Orphans, prevHash)
             THEN {orphanAdded(
                       addOrphanBlock(Path(t, "orphan"), bl, hash, TRUE),
                       bl, hash)}
        ELSE addChecked(t, bl, hash, checkBlock(t, bl, p.bl))

\* AddBlock(tx, bl): the possible contexts it ends in; err is its error
AddBlock(t, bl) == addHashed(t, bl, Hash(bl))

----------------------------------------------------------------------------
(* The node: its database, its in-memory fields, and the AddBlock calls    *)

\* what the thread that calls AddBlock holds: the chain write lock
\* ("Blockchain MUST be locked before calling this") and the write
\* transaction tx it passes
HeldInAddBlock == {"chain", "db"}

\* the view a bbolt transaction opened on the current database gives
Ctx ==
    [BLOCK |-> BLOCK, TOPO |-> TOPO, bstate |-> bstate, stats |-> stats,
     mempool |-> mempool, INTX |-> INTX, OUTTX |-> OUTTX,
     TXHEIGHT |-> TXHEIGHT, SyncHeight |-> SyncHeight, SyncDiff |-> SyncDiff,
     err |-> "", log |-> {}, path |-> "", sent |-> {},
     queue |-> <<>>, held |-> HeldInAddBlock, now |-> now]

\* addGenesis on an empty database
addGenesis ==
    LET t0 == [BLOCK |-> EmptyMap, TOPO |-> EmptyMap, bstate |-> EmptyMap,
               stats |-> <<>>,
               mempool |-> {}, INTX |-> EmptyMap, OUTTX |-> EmptyMap,
               TXHEIGHT |-> EmptyMap, SyncHeight |-> 0, SyncDiff |-> 0,
               err |-> "", log |-> {}, path |-> "genesis", sent |-> {},
               queue |-> <<>>, held |-> {"db"}, now |-> 0]
        t1 == insertBlockMain(t0, Genesis)
        t2 == SetStats(t1, [TopHash |-> Hash(Genesis), TopHeight |-> 0,
                            CumulativeDiff |-> Genesis.Difficulty,
                            Tips |-> EmptyMap, Orphans |-> EmptyMap])
    IN  ApplyBlockToState(t2, Genesis)

\* the node once the transaction that ended in g is committed
Opened(g) ==
    /\ BLOCK = g.BLOCK
    /\ TOPO = g.TOPO
    /\ bstate = g.bstate
    /\ stats = g.stats
    /\ mempool = g.mempool
    /\ INTX = g.INTX
    /\ OUTTX = g.OUTTX
    /\ TXHEIGHT = g.TXHEIGHT
    /\ SyncHeight = g.SyncHeight
    /\ SyncDiff = g.SyncDiff
    /\ last = [hash |-> Hash(Genesis), status |-> "ok", err |-> "",
               path |-> "genesis", log |-> {}, sent |-> {}, queue |-> <<>>]
    /\ now = g.now

\* the threads at the start: the node is running, the sync driver is at
\* the head of its loop, the flusher sleeps
Running ==
    [ShuttingDown |-> FALSE, dbOpen |-> TRUE,
     close |-> "running", sync |-> "check", flush |-> "sleep",
     stats |-> "nil", began |-> {}]

\* a thread starts an operation on bc.DB: what it is, who starts it, and
\* what the shutdown flag and the database are at that moment
Begin(p, op, by) ==
    [p EXCEPT !.began = @ \cup {[op |-> op, by |-> by,
                                 ShuttingDown |-> p.ShuttingDown,
                                 dbOpen |-> p.dbOpen]}]

\* no transaction or block is being built
NoCall == [stage |-> "none"]

Init == Opened(addGenesis) /\ call = NoCall /\ proc = Running

\* DB.Update(func(tx) { AddBlock(tx, bl) }) for the candidate block h: bbolt
\* commits the transaction when the function returns nil and rolls it back
\* when it returns an error or panics; SyncHeight and SyncDiff are fields of
\* the Blockchain object and keep what the handlers wrote.  A panic ends
\* the process.
AddBlockStep(h) ==
    /\ last.status # "panic"
    /\ Cardinality(DOMAIN BLOCK) < MaxStored
    /\ \E r \in AddBlock(Ctx, BlockOf[h]) :
          /\ IF r.err = ""
             THEN /\ BLOCK' = r.BLOCK
                  /\ TOPO' = r.TOPO
                  /\ bstate' = r.bstate
                  /\ stats' = r.stats
                  /\ mempool' = r.mempool
                  /\ INTX' = r.INTX
                  /\ OUTTX' = r.OUTTX
                  /\ TXHEIGHT' = r.TXHEIGHT
             ELSE UNCHANGED <<BLOCK, TOPO, bstate, stats, mempool,
                              INTX, OUTTX, TXHEIGHT>>
          /\ SyncHeight' = r.SyncHeight
          /\ SyncDiff' = r.SyncDiff
          /\ last' = [hash |-> h,
                      status |-> IF r.err = "" THEN "ok"
                                 ELSE IF r.err = "panic" THEN "panic"
                                 ELSE "err",
                      err |-> r.err, path |-> r.path, log |-> r.log,
                      sent |-> r.sent, queue |-> r.queue]
    /\ UNCHANGED <<call, proc, now>>

Next == \E h \in CandidateHashes : AddBlockStep(h)

Spec == Init /\ [][Next]_vars

\* The same node fed blocks whose parents are never delivered, while time
\* passes: M2 (on A1), B3 and X3 (on B2), and B4 (on B3)
ExpiryHashes == {"M2", "B3", "X3", "B4"}

MaxNow == 5

\* time passes
Tick ==
    /\ now < MaxNow
    /\ now' = now + 1
    /\ UNCHANGED <<BLOCK, TOPO, bstate, stats, mempool, INTX, OUTTX,
                   TXHEIGHT, SyncHeight, SyncDiff, last, call, proc>>

AddOrphanStep == \E h \in ExpiryHashes : AddBlockStep(h)

NextExpiry ==
    \/ AddOrphanStep
    \/ Tick

\* time does pass, and a block a peer keeps offering is taken
SpecExpiry ==
    Init /\ [][NextExpiry]_vars /\ WF_vars(Tick) /\ WF_vars(AddOrphanStep)

\* The same node with the pending transactions in its mempool, fed blocks
\* that carry them on two branches: A2 (t1) on A1, and on A1's other child
\* B2 the blocks B3, X3 (t1) and Y3 (t2)
Pending == {"t1", "t2", "t3"}

PoolHashes == {"A1", "A2", "B2", "B3", "X3", "Y3", "B4"}

InitPool ==
    /\ Opened([addGenesis EXCEPT !.mempool = Pending])
    /\ call = NoCall
    /\ proc = Running

NextPool == \E h \in PoolHashes : AddBlockStep(h)

SpecPool == InitPool /\ [][NextPool]_vars

\* The same node fed the blocks that cite side blocks
NextSide == \E h \in SideCandidateHashes : AddBlockStep(h)

SpecSide == Init /\ [][NextSide]_vars

----------------------------------------------------------------------------
(* The transaction on the wire: package binary (Ser, Des), and             *)
(* Transaction.Serialize, Deserialize, Sign and Prevalidate.  A byte is a  *)
(* number below 256; the arrays are shorter than the program's.            *)

\* bitcrypto.PUBKEY_SIZE, address.SIZE, bitcrypto.SIGNATURE_SIZE
PUBKEY_SIZE == 2
ADDRESS_SIZE == 2
SIGNATURE_SIZE == 3

\* config.FEE_PER_BYTE, config.MAX_TX_SIZE, config.COIN
FEE_PER_BYTE == 2
MAX_TX_SIZE == 64
COIN == 1000

\* encoding/binary.MaxVarintLen64 at the width of U64 (16 bits in 7-bit
\* groups), and the most the last group may hold (the 2 bits left)
MaxVarintLen64 == 3
MaxLastGroup == 3

Zeroes(n) == [i \in 1..n |-> 0]

\* address.INVALID_ADDRESS
INVALID_ADDRESS == Zeroes(ADDRESS_SIZE)

\* Ser.AddUvarint: the unsigned LEB128 bytes of x, low group first
RECURSIVE PutUvarint(_)
PutUvarint(x) ==
    IF x < 128 THEN <<x>>
    ELSE <<128 + (x % 128)>> \o PutUvarint(x \div 128)

\* encoding/binary.Uvarint from byte i of buf on, x and the shift s so far:
\* the value and the number of bytes read; n = 0 when buf ends inside the
\* number, n < 0 when the number does not fit the integer
RECURSIVE Uvarint(_, _, _, _)
Uvarint(buf, i, x, s) ==
    IF i > Len(buf) THEN [d |-> 0, n |-> 0]
    ELSE IF i - 1 = MaxVarintLen64 THEN [d |-> 0, n |-> 0 - i]
    ELSE IF buf[i] < 128
         THEN IF i = MaxVarintLen64 /\ buf[i] > MaxLastGroup
              THEN [d |-> 0, n |-> 0 - i]
              ELSE [d |-> (x + buf[i] * (2 ^ s)) % U64, n |-> i]
    ELSE Uvarint(buf, i + 1, (x + (buf[i] % 128) * (2 ^ s)) % U64, s + 7)

\* the slice s[n:]
SliceFrom(s, n) == SubSeq(s, n + 1, Len(s))

\* Des.ReadFixedByteArray: the parser after the read, and the bytes read
ReadFixedByteArray(d, length) ==
    IF d.err # "" THEN [d |-> d, v |-> Zeroes(length)]
    ELSE IF Len(d.Data) < length
         THEN [d |-> [d EXCEPT !.err = "invalid length"],
               v |-> Zeroes(length)]
    ELSE [d |-> [d EXCEPT !.Data = SliceFrom(d.Data, length)],
          v |-> SubSeq(d.Data, 1, length)]

\* Des.ReadUvarint
ReadUvarint(d) ==
    IF d.err # "" THEN [d |-> d, v |-> 0]
    ELSE IF Len(d.Data) < 1
         THEN [d |-> [d EXCEPT !.err = "invalid length"], v |-> 0]
    ELSE LET u == Uvarint(d.Data, 1, 0, 0) IN
         IF u.n < 0
         THEN [d |-> [d EXCEPT !.err = "invalid uvarint"], v |-> 0]
         ELSE [d |-> [d EXCEPT !.Data = SliceFrom(d.Data, u.n)], v |-> u.d]

\* transaction.Transaction with its seven fields
Transaction(sender, recipient, signature, nonce, amount, fee, subaddr) ==
    [Sender |-> sender, Recipient |-> recipient, Signature |-> signature,
     Nonce |-> nonce, Amount |-> amount, Fee |-> fee, Subaddr |-> subaddr]

\* Transaction.Serialize
TxSerialize(t) ==
    t.Sender \o t.Recipient \o t.Signature
    \o PutUvarint(t.Subaddr) \o PutUvarint(t.Nonce)
    \o PutUvarint(t.Amount) \o PutUvarint(t.Fee)

\* Transaction.Deserialize with the nonce read before the subaddress
TxDeserializeNonceFirst(data) ==
    LET sender == ReadFixedByteArray([Data |-> data, err |-> ""], PUBKEY_SIZE)
        recipient == ReadFixedByteArray(sender.d, ADDRESS_SIZE)
        signature == ReadFixedByteArray(recipient.d, SIGNATURE_SIZE)
        nonce == ReadUvarint(signature.d)
        subaddr == ReadUvarint(nonce.d)
        amount == ReadUvarint(subaddr.d)
        fee == ReadUvarint(amount.d)
    IN  [tx |-> Transaction(sender.v, recipient.v, signature.v, nonce.v,
                            amount.v, fee.v, subaddr.v),
         err |-> fee.d.err]

\* Transaction.Deserialize: the transaction read and d.Error()
TxDeserialize(data) ==
    LET sender == ReadFixedByteArray([Data |-> data, err |-> ""], PUBKEY_SIZE)
        recipient == ReadFixedByteArray(sender.d, ADDRESS_SIZE)
        signature == ReadFixedByteArray(recipient.d, SIGNATURE_SIZE)
        subaddr == ReadUvarint(signature.d)
        nonce == ReadUvarint(subaddr.d)
        amount == ReadUvarint(nonce.d)
        fee == ReadUvarint(amount.d)
    IN  [tx |-> Transaction(sender.v, recipient.v, signature.v, nonce.v,
                            amount.v, fee.v, subaddr.v),
         err |-> fee.d.err]

\* base_overhead and Transaction.GetVirtualSize
base_overhead == PUBKEY_SIZE + ADDRESS_SIZE + SIGNATURE_SIZE + 7
GetVirtualSize(t) == base_overhead

\* Transaction.SignatureData: the serialization with a zero signature
SignatureData(t) ==
    TxSerialize([t EXCEPT !.Signature = Zeroes(SIGNATURE_SIZE)])

\* Keys: a private key is a number, its public key repeats it
Privkeys == {1, 2}
Public(pk) == [i \in 1..PUBKEY_SIZE |-> pk]

RECURSIVE SumBytes(_, _)
SumBytes(data, i) ==
    IF i > Len(data) THEN 0 ELSE (data[i] + SumBytes(data, i + 1)) % 256

\* bitcrypto.Sign and bitcrypto.VerifySignature: a signature names the key
\* and digests the data
Sign(data, pk) ==
    [i \in 1..SIGNATURE_SIZE |-> IF i = 1 THEN pk ELSE SumBytes(data, 1)]
VerifySignature(pubkey, data, signature) ==
    \E pk \in Privkeys : Public(pk) = pubkey /\ signature = Sign(data, pk)

\* Transaction.Sign
TxSign(t, pk) == [t EXCEPT !.Signature = Sign(SignatureData(t), pk)]

\* Transaction.Prevalidate with the fee compared to the virtual size alone
TxPrevalidateFeePerSize(t) ==
    IF GetVirtualSize(t) > MAX_TX_SIZE THEN "invalid vsize"
    ELSE IF t.Amount = 0 THEN "transaction amount cannot be zero"
    ELSE IF FromPubKey(t.Sender) = INVALID_ADDRESS
         THEN "invalid sender public key"
    ELSE IF FromPubKey(t.Sender) = t.Recipient
         THEN "sender and recipient must be different"
    ELSE IF t.Fee < GetVirtualSize(t)
         THEN "invalid transaction fee"
    ELSE IF ~VerifySignature(t.Sender, SignatureData(t), t.Signature)
         THEN "invalid signature"
    ELSE ""

\* Transaction.Prevalidate: the error it returns, "" for nil
TxPrevalidate(t) ==
    IF GetVirtualSize(t) > MAX_TX_SIZE THEN "invalid vsize"
    ELSE IF t.Amount = 0 THEN "transaction amount cannot be zero"
    ELSE IF FromPubKey(t.Sender) = INVALID_ADDRESS
         THEN "invalid sender public key"
    ELSE IF FromPubKey(t.Sender) = t.Recipient
         THEN "sender and recipient must be different"
    ELSE IF t.Fee < Mul64(FEE_PER_BYTE, GetVirtualSize(t))
         THEN "invalid transaction fee"
    ELSE IF ~VerifySignature(t.Sender, SignatureData(t), t.Signature)
         THEN "invalid signature"
    ELSE ""

\* The transactions a caller builds, as TestTransaction does: a sender key,
\* a recipient address, no signature yet, and the four numbers
FeeFloor == FEE_PER_BYTE * base_overhead
BuiltTransactions ==
    {Transaction(Public(k), r, Zeroes(SIGNATURE_SIZE), n, a, f, sub) :
        k \in {0} \cup Privkeys,
        r \in {Public(1), <<7, 9>>},
        n \in {1, 16384},
        a \in {0, 1, 128, COIN, U64 - 1},
        f \in {0, FeeFloor - 1, FeeFloor, 16383, U64 - 1},
        sub \in {0, 128}}

\* the database and the chain's fields, which no step on a transaction or
\* block outside the chain touches
chainVars ==
    <<BLOCK, TOPO, bstate, stats, mempool, INTX, OUTTX, TXHEIGHT,
      SyncHeight, SyncDiff, last, now>>

\* a transaction is built
InitTx ==
    /\ Opened(addGenesis)
    /\ call \in {[stage |-> "built", tx |-> x] : x \in BuiltTransactions}
    /\ proc = Running

\* tx.Sign(privk)
SignStep ==
    /\ call.stage = "built"
    /\ \E pk \in Privkeys :
          call' = [stage |-> "signed", tx |-> TxSign(call.tx, pk)]
    /\ UNCHANGED <<chainVars, proc>>

\* ser := tx.Serialize()
SerializeStep ==
    /\ call.stage \in {"built", "signed"}
    /\ call' = [stage |-> "serialized", tx |-> call.tx,
                ser |-> TxSerialize(call.tx)]
    /\ UNCHANGED <<chainVars, proc>>

\* err := tx2.Deserialize(ser)
DeserializeStep ==
    /\ call.stage = "serialized"
    /\ call' = [stage |-> "deserialized", tx |-> call.tx, ser |-> call.ser,
                tx2 |-> TxDeserialize(call.ser).tx,
                err |-> TxDeserialize(call.ser).err]
    /\ UNCHANGED <<chainVars, proc>>

\* ser2 := tx2.Serialize()
ReserializeStep ==
    /\ call.stage = "deserialized"
    /\ call' = [stage |-> "reserialized", tx |-> call.tx, ser |-> call.ser,
                tx2 |-> call.tx2, err |-> call.err,
                ser2 |-> TxSerialize(call.tx2)]
    /\ UNCHANGED <<chainVars, proc>>

\* err = tx.Prevalidate()
PrevalidateStep ==
    /\ call.stage = "reserialized"
    /\ call' = [stage |-> "prevalidated", tx |-> call.tx,
                err |-> TxPrevalidate(call.tx)]
    /\ UNCHANGED <<chainVars, proc>>

NextTx ==
    \/ SignStep
    \/ SerializeStep
    \/ DeserializeStep
    \/ ReserializeStep
    \/ PrevalidateStep

SpecTx == InitTx /\ [][NextTx]_vars

----------------------------------------------------------------------------
(* Block.Prevalidate: what a received block goes through before AddBlock.  *)
(* The block is the header as received: the fields Prevalidate reads, the  *)
(* proof-of-work value the hashing oracle gives its commitment, and the    *)
(* nonce, which stands for the fields Prevalidate does not read.           *)

\* config.MIN_DIFFICULTY, config.FUTURE_TIME_LIMIT (seconds), config.NETWORK_ID
MIN_DIFFICULTY == 3
FUTURE_TIME_LIMIT == 1
NETWORK_ID == 1

\* uint128.Max, the greatest proof-of-work value
MaxPow == 255

\* util.Time(): the clock, in milliseconds, when the block is received
Time == 10

\* the length of a seed epoch, in milliseconds, and GetSeedhashId
SeedEpoch == 2000
GetSeedhashId(timestamp) == timestamp \div SeedEpoch

ReceivedBlock(version, height, timestamp, diff, chains, sides, pow, nonce) ==
    [Version |-> version, Height |-> height, Timestamp |-> timestamp,
     Difficulty |-> diff, OtherChains |-> chains, SideBlocks |-> sides,
     Pow |-> pow, Nonce |-> nonce]

\* Block.Hash of a received block: the digest of its serialization, one
\* value for each content
BlockHash(b) == <<"blake3", b>>

\* Block.ValidPowHash and Commitment.ValidPowHash: the value against
\* Max / difficulty
ValidPowValue(val, diff) == val <= MaxPow \div diff

\* package checkpoints: the hard-coded fences.  The block fenced at height
\* 2 meets its difficulty, the one fenced at height 4 does not.
LastCheckpoint == 4
CheckpointBlocks ==
    [h \in {2, LastCheckpoint} |->
        ReceivedBlock(0, h, 5, MIN_DIFFICULTY, <<>>, <<>>,
                      IF h = 2 THEN 0 ELSE MaxPow, "c")]
IsSecured(height) == height <= LastCheckpoint
IsCheckpoint(height) == height \in DOMAIN CheckpointBlocks
GetCheckpoint(height) == BlockHash(CheckpointBlocks[height])

\* Prevalidate, "check that OtherChains are valid (no duplicates)": the
\* error entry i gives, from its pairing with entry i2 on
RECURSIVE otherChainsDuplicate(_, _, _)
otherChainsDuplicate(chains, i, i2) ==
    IF i2 > Len(chains) THEN ""
    ELSE IF i # i2 /\ (chains[i].Hash = chains[i2].Hash
                       \/ chains[i].NetworkID = chains[i2].NetworkID)
         THEN "duplicate OtherChain"
    ELSE otherChainsDuplicate(chains, i, i2 + 1)

RECURSIVE checkOtherChains(_, _)
checkOtherChains(chains, i) ==
    IF i > Len(chains) THEN ""
    ELSE IF chains[i].NetworkID = NETWORK_ID
         THEN "other chain includes current network id"
    ELSE IF otherChainsDuplicate(chains, i, 1) # ""
         THEN otherChainsDuplicate(chains, i, 1)
    ELSE checkOtherChains(chains, i + 1)

\* Prevalidate, "prevalidate side blocks", from side block i on
RECURSIVE prevalidateSideBlocks(_, _)
prevalidateSideBlocks(b, i) ==
    IF i > Len(b.SideBlocks) THEN ""
    ELSE IF GetSeedhashId(b.SideBlocks[i].Timestamp)
              # GetSeedhashId(b.Timestamp)
         THEN "side block has a different seedhash"
    ELSE IF ~ValidPowValue(b.SideBlocks[i].Pow, (b.Difficulty * 2) \div 3)
         THEN "commitment does not meet difficulty"
    ELSE prevalidateSideBlocks(b, i + 1)

\* Prevalidate's last step: the proof of work of the block and of its side
\* blocks
prevalidatePow(b) ==
    IF ~ValidPowValue(b.Pow, b.Difficulty)
    THEN "block does not meet difficulty"
    ELSE prevalidateSideBlocks(b, 1)

\* Block.Prevalidate with no comparison to the checkpoint
BlockPrevalidateUnmatched(b) ==
    IF b.Version # 0 THEN "unexpected block version"
    ELSE IF b.Difficulty = 0 THEN "difficulty is zero"
    ELSE IF b.Difficulty < MIN_DIFFICULTY
         THEN "difficulty is less than minimum"
    ELSE IF b.Timestamp > Add64(Time, Mul64(FUTURE_TIME_LIMIT, 1000))
         THEN "block is too much in the future"
    ELSE IF checkOtherChains(b.OtherChains, 1) # ""
         THEN checkOtherChains(b.OtherChains, 1)
    ELSE IF ~IsSecured(b.Height) THEN prevalidatePow(b)
    ELSE ""

\* Block.Prevalidate: the error it returns, "" for nil
BlockPrevalidate(b) ==
    IF b.Version # 0 THEN "unexpected block version"
    ELSE IF b.Difficulty = 0 THEN "difficulty is zero"
    ELSE IF b.Difficulty < MIN_DIFFICULTY
         THEN "difficulty is less than minimum"
    ELSE IF b.Timestamp > Add64(Time, Mul64(FUTURE_TIME_LIMIT, 1000))
         THEN "block is too much in the future"
    ELSE IF checkOtherChains(b.OtherChains, 1) # ""
         THEN checkOtherChains(b.OtherChains, 1)
    ELSE IF ~IsSecured(b.Height) THEN prevalidatePow(b)
    ELSE IF IsCheckpoint(b.Height) /\ BlockHash(b) # GetCheckpoint(b.Height)
         THEN "block does not match checkpoint"
    ELSE ""

\* The blocks peers send: at heights below, at and above the checkpoints
HashingID(hash, networkID) == [Hash |-> hash, NetworkID |-> networkID]
SideCommitment(timestamp, pow) == [Timestamp |-> timestamp, Pow |-> pow]
ReceivedBlocks ==
    {ReceivedBlock(v, h, ts, d, oc, sides, pow, n) :
        v \in {0, 1},
        h \in 1..(LastCheckpoint + 1),
        ts \in {5, 1011},
        d \in {0, MIN_DIFFICULTY - 1, MIN_DIFFICULTY},
        oc \in {<<>>, <<HashingID("o1", NETWORK_ID)>>,
                <<HashingID("o1", 2), HashingID("o2", 2)>>,
                <<HashingID("o1", 2), HashingID("o2", 3)>>},
        sides \in {<<>>, <<SideCommitment(4, 0)>>,
                   <<SideCommitment(4, MaxPow)>>,
                   <<SideCommitment(2004, 0)>>},
        pow \in {0, MaxPow},
        n \in {"c", "x"}}

\* a block is received
InitBlock ==
    /\ Opened(addGenesis)
    /\ call \in {[stage |-> "received", bl |-> b] : b \in ReceivedBlocks}
    /\ proc = Running

\* err := bl.Prevalidate()
BlockPrevalidateStep ==
    /\ call.stage = "received"
    /\ call' = [stage |-> "checked", bl |-> call.bl,
                err |-> BlockPrevalidate(call.bl)]
    /\ UNCHANGED <<chainVars, proc>>

NextBlock == BlockPrevalidateStep

SpecBlock == InitBlock /\ [][NextBlock]_vars

----------------------------------------------------------------------------
(* A miner hands a mining blob to the block it mines: SetMiningBlob.       *)

\* blob.go: the fields of a MiningBlob that setMiningBlob reads
MiningBlob(timestamp, nonce, extra, chains) ==
    [Timestamp |-> timestamp, Nonce |-> nonce, NonceExtra |-> extra,
     Chains |-> chains]

\* the inner loop of setMiningBlob, "for _, oc := range b.OtherChains"
duplicateHashingId(others, v) ==
    \E k \in 1..Len(others) :
        others[k].Hash = v.Hash \/ others[k].NetworkID = v.NetworkID

\* the loop of setMiningBlob over m.Chains from entry i on: the block and
\* the error it returns
RECURSIVE miningBlobLoop(_, _, _, _, _)
miningBlobLoop(b, chains, i, containsNetworkID, lastNetworkId) ==
    IF i > Len(chains)
    THEN [b |-> b,
          err |-> IF containsNetworkID THEN ""
                  ELSE "mining blob does not contain current network id"]
    ELSE IF chains[i].NetworkID # NETWORK_ID
         THEN IF chains[i].NetworkID <= lastNetworkId
              THEN [b |-> b, err |-> "mining blob is not sorted correctly"]
              ELSE IF duplicateHashingId(b.OtherChains, chains[i])
                   THEN [b |-> b, err |-> "duplicate hashing id"]
              ELSE [b |-> [b EXCEPT !.OtherChains = Append(@, chains[i])],
                    err |-> ""]
    ELSE IF containsNetworkID
         THEN [b |-> b, err |-> "mining blob has duplicate network id"]
    ELSE miningBlobLoop(b, chains, i + 1, TRUE, lastNetworkId)

\* Block.setMiningBlob
setMiningBlob(b, m) ==
    miningBlobLoop([b EXCEPT !.Timestamp = m.Timestamp, !.Nonce = m.Nonce,
                             !.NonceExtra = m.NonceExtra,
                             !.OtherChains = <<>>],
                   m.Chains, 1, FALSE, 0)

\* config.IS_MASTERCHAIN: this network is not the master chain
IS_MASTERCHAIN == FALSE

\* Block.SetMiningBlob
SetMiningBlob(b, m) ==
    IF IS_MASTERCHAIN THEN [b |-> b, err |-> "panic"]
    ELSE setMiningBlob(b, m)

\* the blobs: at most MaxChains hashing ids out of BlobIds
MaxChains == 3
BlobIds ==
    {HashingID(h, n) : h \in {"o1", "o2"}, n \in {0, NETWORK_ID, 2, 3}}
MiningBlobs ==
    {MiningBlob(ts, n, x, c) :
        ts \in {5, 6}, n \in {"c", "x"}, x \in {"e"},
        c \in UNION {[1..k -> BlobIds] : k \in 0..MaxChains}}

\* the block template the blob is set on
MinedTemplate ==
    [Version |-> 0, Height |-> 1, Timestamp |-> 0, Nonce |-> "0",
     NonceExtra |-> "0", OtherChains |-> <<HashingID("old", 3)>>]

InitBlob ==
    /\ Opened(addGenesis)
    /\ call \in {[stage |-> "mined", bl |-> MinedTemplate, m |-> m] :
                    m \in MiningBlobs}
    /\ proc = Running

\* err := bl.SetMiningBlob(m)
SetMiningBlobStep ==
    /\ call.stage = "mined"
    /\ call' = [stage |-> "blob set", m |-> call.m,
                bl |-> SetMiningBlob(call.bl, call.m).b,
                err |-> SetMiningBlob(call.bl, call.m).err]
    /\ UNCHANGED <<chainVars, proc>>

NextBlob == SetMiningBlobStep

SpecBlob == InitBlob /\ [][NextBlob]_vars

----------------------------------------------------------------------------
(* checkBlock's scan of one side block's ancestors against the block's,    *)
(* on every pair of ancestor lists over AncestorHashes.                    *)

AncestorHashes == {ZeroHash, "a", "b", "c"}
AncestorLists == [1..MINIDAG_ANCESTORS -> AncestorHashes]

\* the ancestors of a block on a chain: the hashes of distinct blocks, then
\* the zero hash below the genesis block
ChainAncestorLists ==
    {x \in AncestorLists :
        /\ x[1] # ZeroHash
        /\ \A i, j \in 1..MINIDAG_ANCESTORS :
              i < j => /\ x[i] = ZeroHash => x[j] = ZeroHash
                       /\ x[i] = x[j] => x[i] = ZeroHash}

InitAlign ==
    /\ Opened(addGenesis)
    /\ call \in {[stage |-> "side", bl |-> [Ancestors |-> x],
                   side |-> [Ancestors |-> y]] :
                     x \in ChainAncestorLists, y \in AncestorLists}
    /\ proc = Running

\* checkBlock, "check ancestors", for one side block
CheckAncestorsStep ==
    /\ call.stage = "side"
    /\ call' = [stage |-> "scanned", bl |-> call.bl, side |-> call.side,
                err |-> checkSideAncestors(call.bl, call.side, 1, -1)]
    /\ UNCHANGED <<chainVars, proc>>

NextAlign == CheckAncestorsStep

SpecAlign == InitAlign /\ [][NextAlign]_vars

----------------------------------------------------------------------------
(* Shutdown: Close() against the threads that use the database on their    *)
(* own, the sync driver (Synchronize) and the fast-sync flusher started by *)
(* New().  Each step is one statement of one thread.                       *)

\* Close: bc.shutdownInfo.ShuttingDown = true
CloseSetFlag ==
    /\ proc.close = "running"
    /\ proc' = [proc EXCEPT !.ShuttingDown = TRUE, !.close = "flagged"]
    /\ UNCHANGED <<chainVars, call>>

\* Close: the miner is stopped, the P2P server closed, the queue saved
CloseServices ==
    /\ proc.close = "flagged"
    /\ proc' = [proc EXCEPT !.close = "saved"]
    /\ UNCHANGED <<chainVars, call>>

\* Close: if FAST_SYNC { bc.DB.Sync() }
CloseFlush ==
    /\ proc.close = "saved"
    /\ proc' = [proc EXCEPT !.close = "flushed"]
    /\ UNCHANGED <<chainVars, call>>

\* Close: bc.DB.Close()
CloseDatabase ==
    /\ proc.close = "flushed"
    /\ proc' = [proc EXCEPT !.dbOpen = FALSE, !.close = "closed"]
    /\ UNCHANGED <<chainVars, call>>

\* Synchronize: if bc.IsShuttingDown() { return }
SyncCheck ==
    /\ proc.sync = "check"
    /\ proc' = [proc EXCEPT
                  !.sync = IF proc.ShuttingDown THEN "stopped" ELSE "view"]
    /\ UNCHANGED <<chainVars, call>>

\* Synchronize: bc.DB.View(func(tx) { stats = bc.GetStats(tx) }); on a
\* closed database View returns an error, which is dropped, and stats
\* stays nil
SyncView ==
    /\ proc.sync = "view"
    /\ proc' = [Begin(proc, "View", "sync") EXCEPT
                  !.sync = "queue",
                  !.stats = IF proc.dbOpen THEN "read" ELSE "nil"]
    /\ UNCHANGED <<chainVars, call>>

\* Synchronize: bc.BlockQueue.Update(... stats.TopHeight ...)
SyncUpdateQueue ==
    /\ proc.sync = "queue"
    /\ proc' = [proc EXCEPT
                  !.sync = IF proc.stats = "nil" THEN "panic" ELSE "sleep"]
    /\ UNCHANGED <<chainVars, call>>

\* Synchronize: time.Sleep(250 * time.Millisecond), and the next iteration
SyncSleep ==
    /\ proc.sync = "sleep"
    /\ proc' = [proc EXCEPT !.sync = "check", !.stats = "nil"]
    /\ UNCHANGED <<chainVars, call>>

\* the flusher: time.Sleep(60 * time.Second); a panic of the sync driver
\* ends the process and the flusher with it
FlushSleep ==
    /\ proc.sync # "panic"
    /\ proc.flush = "sleep"
    /\ proc' = [proc EXCEPT !.flush = "sync"]
    /\ UNCHANGED <<chainVars, call>>

\* the flusher: err = bc.DB.Sync(), the error logged
FlushSync ==
    /\ proc.sync # "panic"
    /\ proc.flush = "sync"
    /\ proc' = [Begin(proc, "Sync", "flush") EXCEPT !.flush = "sleep"]
    /\ UNCHANGED <<chainVars, call>>

NextShutdown ==
    \/ CloseSetFlag
    \/ CloseServices
    \/ CloseFlush
    \/ CloseDatabase
    \/ SyncCheck
    \/ SyncView
    \/ SyncUpdateQueue
    \/ SyncSleep
    \/ FlushSleep
    \/ FlushSync

SpecShutdown == Init /\ [][NextShutdown]_vars

----------------------------------------------------------------------------
(* The download queue and fillQueue.  The queue holds the requested blocks *)
(* under (height, hash); a block asked for by height has the zero hash.    *)

PARALLEL_BLOCKS_DOWNLOAD == 3

NewQueuedBlock(height, hash) == [Height |-> height, Hash |-> hash]

\* QueueTx.Length
Length(qt) == Cardinality(qt)

\* QueueTx.SetBlock(qb, force): insert; nothing when qb is present and force
\* is false
SetBlock(qt, qb, force) == qt \cup {qb}

\* the loop of fillQueue: i is the next height, n the count it keeps
RECURSIVE fillLoop(_, _, _, _)
fillLoop(qt, i, n, syncHeight) ==
    IF i > syncHeight THEN qt
    ELSE IF n > PARALLEL_BLOCKS_DOWNLOAD THEN qt
    ELSE fillLoop(SetBlock(qt, NewQueuedBlock(i, ZeroHash), FALSE),
                  i + 1, n + 1, syncHeight)

\* fillQueue(qt, topHeight), with syncHeight read from bc.SyncHeight
fillQueue(qt, topHeight, syncHeight) ==
    IF Length(qt) < PARALLEL_BLOCKS_DOWNLOAD /\ syncHeight > topHeight
    THEN fillLoop(qt, topHeight + 1, Length(qt), syncHeight)
    ELSE qt

\* the queues, top heights and sync heights fillQueue is called with: any
\* requests by height up to MaxQueued and the request for an orphan's parent
MaxQueued == 6
MaxTop == 3

Queues == SUBSET ({NewQueuedBlock(i, ZeroHash) : i \in 1..MaxQueued}
                  \cup {NewQueuedBlock(0, "A1")})

\* Synchronize has read stats.TopHeight and enters the queue update; peers
\* have reported the height sh
InitFill ==
    /\ \E sh \in 0..MaxQueued : Opened([addGenesis EXCEPT !.SyncHeight = sh])
    /\ call \in {[stage |-> "update", qt |-> q, topHeight |-> th]
                 : q \in Queues, th \in 0..MaxTop}
    /\ proc = Running

\* bc.fillQueue(qt, stats.TopHeight)
FillQueueStep ==
    /\ call.stage = "update"
    /\ call' = [stage |-> "filled", before |-> call.qt,
                topHeight |-> call.topHeight,
                qt |-> fillQueue(call.qt, call.topHeight, SyncHeight)]
    /\ UNCHANGED <<chainVars, proc>>

NextFill == FillQueueStep

SpecFill == InitFill /\ [][NextFill]_vars

----------------------------------------------------------------------------
(* The parser Des on its own: every read, applied in any order to a byte   *)
(* string.  A read gives the parser after it (d) and the value read (v).   *)

\* binary.LittleEndian.Uint16
Uint16(b) == b[1] + 256 * b[2]

\* binary.LittleEndian.Uint32 and Uint64: the integer as its digits to the
\* base 256, low digit first, which is how the bytes hold it
LittleEndianDigits(b) == b

\* Des.ReadUint8 without the test of the error
ReadUint8Unguarded(d) ==
    IF Len(d.Data) < 1
    THEN [d |-> [d EXCEPT !.err = "invalid length"], v |-> 0]
    ELSE [d |-> [d EXCEPT !.Data = SliceFrom(d.Data, 1)], v |-> d.Data[1]]

\* Des.ReadUint8
ReadUint8(d) ==
    IF d.err # "" THEN [d |-> d, v |-> 0]
    ELSE IF Len(d.Data) < 1
         THEN [d |-> [d EXCEPT !.err = "invalid length"], v |-> 0]
    ELSE [d |-> [d EXCEPT !.Data = SliceFrom(d.Data, 1)], v |-> d.Data[1]]

\* Des.ReadUint16
ReadUint16(d) ==
    IF d.err # "" THEN [d |-> d, v |-> 0]
    ELSE IF Len(d.Data) < 2
         THEN [d |-> [d EXCEPT !.err = "invalid length"], v |-> 0]
    ELSE [d |-> [d EXCEPT !.Data = SliceFrom(d.Data, 2)],
          v |-> Uint16(SubSeq(d.Data, 1, 2))]

\* Des.ReadUint32
ReadUint32(d) ==
    IF d.err # "" THEN [d |-> d, v |-> LittleEndianDigits(Zeroes(4))]
    ELSE IF Len(d.Data) < 4
         THEN [d |-> [d EXCEPT !.err = "invalid length"],
               v |-> LittleEndianDigits(Zeroes(4))]
    ELSE [d |-> [d EXCEPT !.Data = SliceFrom(d.Data, 4)],
          v |-> LittleEndianDigits(SubSeq(d.Data, 1, 4))]

\* Des.ReadUint64
ReadUint64(d) ==
    IF d.err # "" THEN [d |-> d, v |-> LittleEndianDigits(Zeroes(8))]
    ELSE IF Len(d.Data) < 8
         THEN [d |-> [d EXCEPT !.err = "invalid length"],
               v |-> LittleEndianDigits(Zeroes(8))]
    ELSE [d |-> [d EXCEPT !.Data = SliceFrom(d.Data, 8)],
          v |-> LittleEndianDigits(SubSeq(d.Data, 1, 8))]

\* int(length) of an unsigned length: the upper half of the unsigned range
\* is negative
ToInt(x) == IF x >= U64 \div 2 THEN x - U64 ELSE x

\* Des.ReadByteSlice once the length prefix is read and Data is rest: the
\* slice expression s.Data[:length] panics when length is beyond the bytes
byteSliceBody(d, rest, length) ==
    IF Len(rest) < ToInt(length)
    THEN [d |-> [d EXCEPT !.Data = rest, !.err = "invalid binary length"],
          v |-> <<>>, panic |-> FALSE]
    ELSE IF length > Len(rest)
         THEN [d |-> [d EXCEPT !.Data = rest], v |-> <<>>, panic |-> TRUE]
    ELSE [d |-> [d EXCEPT !.Data = SliceFrom(rest, length)],
          v |-> SubSeq(rest, 1, length), panic |-> FALSE]

\* Des.ReadByteSlice with the prefix binary.Uvarint gave
byteSlicePrefixed(d, u) ==
    IF u.n < 0
    THEN [d |-> [d EXCEPT !.err = "invalid uvarint length"], v |-> <<>>,
          panic |-> FALSE]
    ELSE byteSliceBody(d, SliceFrom(d.Data, u.n), u.d)

\* Des.ReadByteSlice
ReadByteSlice(d) ==
    IF d.err # "" THEN [d |-> d, v |-> <<>>, panic |-> FALSE]
    ELSE IF Len(d.Data) < 1
         THEN [d |-> [d EXCEPT !.err = "invalid length"], v |-> <<>>,
               panic |-> FALSE]
    ELSE byteSlicePrefixed(d, Uvarint(d.Data, 1, 0, 0))

\* Des.ReadBool
ReadBool(d) ==
    IF d.err # "" THEN [d |-> d, v |-> FALSE]
    ELSE IF Len(d.Data) < 1
         THEN [d |-> [d EXCEPT !.err = "invalid length"], v |-> FALSE]
    ELSE IF d.Data[1] = 1
         THEN [d |-> [d EXCEPT !.Data = SliceFrom(d.Data, 1)], v |-> TRUE]
    ELSE IF d.Data[1] = 2
         THEN [d |-> [d EXCEPT !.Data = SliceFrom(d.Data, 1)], v |-> FALSE]
    ELSE [d |-> [d EXCEPT !.Data = SliceFrom(d.Data, 1),
                          !.err = "invalid boolean value"],
          v |-> FALSE]

\* Des.Error
Error(d) == d.err

\* the byte strings handed to NewDes: every string of at most MaxData bytes
\* out of DesBytes, and two that hold a 64-bit integer
MaxData == 4
MaxFixed == 2
DesBytes == {0, 1, 2, 128, 255}

DesInputs ==
    UNION {[1..n -> DesBytes] : n \in 0..MaxData}
    \cup {<<1, 0, 0, 0, 0, 0, 0, 0>>, <<2, 1, 0, 0, 0, 0, 0, 128, 1>>}

\* NewDes(Data)
NewDes(data) == [Data |-> data, err |-> ""]

InitDes ==
    /\ Opened(addGenesis)
    /\ call \in {[stage |-> "des", d |-> NewDes(x), first |-> "",
                  panic |-> FALSE] : x \in DesInputs}
    /\ proc = Running

\* one read op with the argument n gave r on the parser of c; first keeps
\* the first error Error() showed
AfterRead(c, op, n, r, panicked) ==
    [stage |-> "read", op |-> op, n |-> n, prev |-> c.d, d |-> r.d,
     v |-> r.v, panic |-> panicked,
     first |-> IF c.first = "" THEN Error(r.d) ELSE c.first]

Reading == call.stage \in {"des", "read"} /\ ~call.panic

ReadUint8Step ==
    /\ Reading
    /\ call' = AfterRead(call, "ReadUint8", 0, ReadUint8(call.d), FALSE)
    /\ UNCHANGED <<chainVars, proc>>

ReadUint16Step ==
    /\ Reading
    /\ call' = AfterRead(call, "ReadUint16", 0, ReadUint16(call.d), FALSE)
    /\ UNCHANGED <<chainVars, proc>>

ReadUint32Step ==
    /\ Reading
    /\ call' = AfterRead(call, "ReadUint32", 0, ReadUint32(call.d), FALSE)
    /\ UNCHANGED <<chainVars, proc>>

ReadUint64Step ==
    /\ Reading
    /\ call' = AfterRead(call, "ReadUint64", 0, ReadUint64(call.d), FALSE)
    /\ UNCHANGED <<chainVars, proc>>

ReadUvarintStep ==
    /\ Reading
    /\ call' = AfterRead(call, "ReadUvarint", 0, ReadUvarint(call.d), FALSE)
    /\ UNCHANGED <<chainVars, proc>>

ReadFixedByteArrayStep ==
    /\ Reading
    /\ \E n \in 0..MaxFixed :
          call' = AfterRead(call, "ReadFixedByteArray", n,
                            ReadFixedByteArray(call.d, n), FALSE)
    /\ UNCHANGED <<chainVars, proc>>

ReadByteSliceStep ==
    /\ Reading
    /\ call' = AfterRead(call, "ReadByteSlice", 0, ReadByteSlice(call.d),
                         ReadByteSlice(call.d).panic)
    /\ UNCHANGED <<chainVars, proc>>

ReadBoolStep ==
    /\ Reading
    /\ call' = AfterRead(call, "ReadBool", 0, ReadBool(call.d), FALSE)
    /\ UNCHANGED <<chainVars, proc>>

NextDes ==
    \/ ReadUint8Step
    \/ ReadUint16Step
    \/ ReadUint32Step
    \/ ReadUint64Step
    \/ ReadUvarintStep
    \/ ReadFixedByteArrayStep
    \/ ReadByteSliceStep
    \/ ReadBoolStep

SpecDes == InitDes /\ [][NextDes]_vars

----------------------------------------------------------------------------
(* The locks: the chain lock, the write transaction of the database, the   *)
(* lock of the download queue, SyncMut, MergesMut and the shutdown lock,   *)
(* as the sync driver, the threads that call AddBlock and Close take and   *)
(* release them.  A reader's lock is taken as the writer's is.             *)

Locks == {"chain", "db", "queue", "SyncMut", "MergesMut", "shutdown"}
Adders == {"adder1", "adder2"}
Threads == {"sync", "close"} \cup Adders

Acquire(lock) == [kind |-> "acq", lock |-> lock]
Release(lock) == [kind |-> "rel", lock |-> lock]

\* Synchronize: IsShuttingDown (the flag is read under the shutdown lock
\* and the thread returns when it is set), then BlockQueue.Update with
\* fillQueue, which reads SyncHeight under SyncMut, in its closure
SyncProgram ==
    <<Acquire("shutdown"), [kind |-> "read", lock |-> "shutdown"],
      Release("shutdown"),
      Acquire("queue"), Acquire("SyncMut"), Release("SyncMut"),
      Release("queue")>>

\* a thread that calls AddBlock: the chain lock, the write transaction,
\* then inside AddBlock the queue update (removeFromQueue), the sync
\* watermark of ApplyBlockToState under SyncMut, and the queue update of
\* CheckReorgs
AddBlockProgram ==
    <<Acquire("chain"), Acquire("db"),
      Acquire("queue"), Release("queue"),
      Acquire("SyncMut"), Release("SyncMut"),
      Acquire("queue"), Release("queue"),
      Release("db"), Release("chain")>>

\* Close with the queue unlocked only after the database is closed
CloseProgramLateUnlock ==
    <<Acquire("shutdown"), [kind |-> "set", lock |-> "shutdown"],
      Release("shutdown"),
      Acquire("MergesMut"), Release("MergesMut"),
      Acquire("queue"), Acquire("db"), Release("db"), Release("queue")>>

\* Close: the flag under the shutdown lock, Mining under MergesMut, the
\* queue saved under its lock, and DB.Close, which waits for the write
\* transaction that is open
CloseProgram ==
    <<Acquire("shutdown"), [kind |-> "set", lock |-> "shutdown"],
      Release("shutdown"),
      Acquire("MergesMut"), Release("MergesMut"),
      Acquire("queue"), Release("queue"),
      Acquire("db"), Release("db")>>

Program(t) ==
    IF t = "sync" THEN SyncProgram
    ELSE IF t = "close" THEN CloseProgram
    ELSE AddBlockProgram

\* the locks the thread t holds
Held(c, t) == {l \in Locks : c.owner[l] = t}

\* where t goes after the operation at its place: the sync driver returns
\* when it read the flag set (place 0), Close ends after its last
\* operation, the other threads start over
NextPc(c, t, op) ==
    IF op.kind = "read" /\ c.ShuttingDown THEN 0
    ELSE IF c.pc[t] < Len(Program(t)) THEN c.pc[t] + 1
    ELSE IF t = "close" THEN Len(Program(t)) + 1
    ELSE 1

\* the owners of the locks after t did op; returning, the sync driver
\* releases the shutdown lock (defer RUnlock)
OwnerAfter(c, t, op) ==
    [l \in Locks |->
        IF op.lock = l /\ op.kind = "acq" THEN t
        ELSE IF op.lock = l /\ op.kind = "rel" THEN "free"
        ELSE IF op.lock = l /\ op.kind = "read" /\ c.ShuttingDown
             THEN "free"
        ELSE c.owner[l]]

\* the pairs (lock held, lock requested) of t at the place pc
RequestsAt(t, pc, held) ==
    IF pc \in 1..Len(Program(t)) /\ Program(t)[pc].kind = "acq"
    THEN {<<l, Program(t)[pc].lock>> : l \in held}
    ELSE {}

After(c, t, op) ==
    [stage |-> "locks",
     pc |-> [c.pc EXCEPT ![t] = NextPc(c, t, op)],
     owner |-> OwnerAfter(c, t, op),
     ShuttingDown |-> (c.ShuttingDown \/ op.kind = "set"),
     order |-> c.order
               \cup RequestsAt(t, NextPc(c, t, op),
                               {l \in Locks : OwnerAfter(c, t, op)[l] = t})]

InitLocks ==
    /\ Opened(addGenesis)
    /\ call = [stage |-> "locks", pc |-> [t \in Threads |-> 1],
               owner |-> [l \in Locks |-> "free"],
               ShuttingDown |-> FALSE, order |-> {}]
    /\ proc = Running

\* the thread t does the operation at its place; it waits at an Acquire
\* while the lock has an owner
Step(t) ==
    /\ call.stage = "locks"
    /\ call.pc[t] \in 1..Len(Program(t))
    /\ Program(t)[call.pc[t]].kind = "acq"
          => call.owner[Program(t)[call.pc[t]].lock] = "free"
    /\ call' = After(call, t, Program(t)[call.pc[t]])
    /\ UNCHANGED <<chainVars, proc>>

SyncThreadStep == Step("sync")
AddBlockThreadStep == \E t \in Adders : Step(t)
CloseThreadStep == Step("close")

NextLocks ==
    \/ SyncThreadStep
    \/ AddBlockThreadStep
    \/ CloseThreadStep

\* Go's mutexes hand a lock that is released again and again to a thread
\* that waits for it (starvation mode), and every thread that can run does
SpecLocks ==
    InitLocks /\ [][NextLocks]_vars /\ \A t \in Threads : SF_vars(Step(t))

----------------------------------------------------------------------------
(* Properties                                                              *)

\* the committed stats
curStats == DeserializeStats(stats)

\* the block a step delivers, and what is known of it before the call
Delivered(h) == last'.hash = h /\ ~Has(BLOCK, h)
ParentAdmitted(h) ==
    /\ Has(BLOCK, PrevHash(BlockOf[h]))
    /\ ~Has(curStats.Orphans, PrevHash(BlockOf[h]))

RECURSIVE SumBalances(_, _)
SumBalances(st, addrs) ==
    IF addrs = {} THEN 0
    ELSE LET a == CHOOSE x \in addrs : TRUE
         IN  st[a].Balance + SumBalances(st, addrs \ {a})

\* C1: after every committed AddBlock (main-chain or alt-chain extension,
\* orphan insertion, deorphanage, reorg), no tip of stats.tips has a
\* cumulative difficulty strictly greater than the top's.
C1_ForkChoice ==
    \A k \in DOMAIN curStats.Tips :
        curStats.Tips[k].CumulativeDiff <= curStats.CumulativeDiff

\* a committed state after a reorganization, with tips left
C1_Witness ==
    /\ last.status = "ok"
    /\ "Reorganize success" \in last.log
    /\ DOMAIN curStats.Tips # {}

\* C2: for every height h <= stats.top_height, TOPO[h] exists and the block
\* stored under that hash has height h.
C2_TopoComplete ==
    \A h \in 0..curStats.TopHeight :
        /\ Has(TOPO, h)
        /\ Has(BLOCK, TOPO[h])
        /\ BLOCK[TOPO[h]].Height = h

\* C3: the balances of STATE sum to the scheduled supply at stats.top_height.
C3_SupplyConserved ==
    SumBalances(bstate, DOMAIN bstate) = GetSupplyAtHeight(curStats.TopHeight)

\* an address without an entry in STATE reads as the zero state
StateOf(st, a) == IF Has(st, a) THEN st[a] ELSE ZeroState
SameState(s1, s2) == \A a \in Addresses : StateOf(s1, a) = StateOf(s2, a)

\* C4: for every block B that ApplyBlockToState accepts on a state S,
\* RemoveBlockFromState(B) on the result returns no error, does not crash,
\* and gives back S (balance, last_nonce, last_incoming of every address).
C4_ApplyRemoveInverse ==
    \A h \in CandidateHashes :
        LET a == ApplyBlockToState(Ctx, BlockOf[h])
            r == RemoveBlockFromState(a, BlockOf[h])
        IN  a.err = "" => r.err = "" /\ SameState(r.bstate, bstate)

\* C5: when a reorganization started inside AddBlock fails, AddBlock returns
\* an error, and STATE, TOPO and stats are as before the call.
C5_ReorgFailureAtomic ==
    [][ "Reorg failed" \in last'.log
          => /\ last'.status = "err"
             /\ UNCHANGED <<bstate, TOPO, stats>> ]_vars

\* the state a chain of candidate blocks gives: the blocks from the genesis
\* block to h applied in order
RECURSIVE ChainState(_)
ChainState(h) ==
    IF h = "G" THEN addGenesis
    ELSE LET p == ChainState(PrevHash(BlockOf[h]))
         IN  IF p.err # "" THEN p ELSE ApplyBlockToState(p, BlockOf[h])

\* TOPO holds a linked chain from height 0 up to the block h
TopoChainTo(topo, blocks, h) ==
    /\ Has(blocks, h)
    /\ \A k \in 0..blocks[h].Height : Has(topo, k) /\ Has(blocks, topo[k])
    /\ topo[blocks[h].Height] = h
    /\ \A k \in 1..blocks[h].Height : PrevHash(blocks[topo[k]]) = topo[k - 1]

\* C6: when a valid alt-branch block arrives whose cumulative difficulty is
\* strictly greater than the top's, then after that AddBlock the top is this
\* block, TOPO maps the heights up to it to its branch, the former top is a
\* tip, and STATE is the state of its branch alone.
C6_ReorgOutcome ==
    [][ \A h \in CandidateHashes :
          ( /\ Delivered(h)
            /\ ParentAdmitted(h)
            /\ PrevHash(BlockOf[h]) # curStats.TopHash
            /\ checkBlock(Ctx, BlockOf[h], BLOCK[PrevHash(BlockOf[h])]) = ""
            /\ ChainState(h).err = ""
            /\ BlockOf[h].CumulativeDiff > curStats.CumulativeDiff )
          => /\ last'.status = "ok"
             /\ curStats'.TopHash = h
             /\ TopoChainTo(TOPO', BLOCK', h)
             /\ \E k \in DOMAIN curStats'.Tips :
                    curStats'.Tips[k].Hash = curStats.TopHash
             /\ SameState(bstate', ChainState(h).bstate) ]_vars

\* the orphans that descend from h: its children among the orphans, their
\* children, and so on
RECURSIVE OrphanDesc(_, _)
OrphanDesc(orphans, h) ==
    LET kids == {o \in DOMAIN orphans : orphans[o].PrevHash = h}
    IN  kids \cup UNION {OrphanDesc(orphans, k) : k \in kids}

\* the greatest cumulative difficulty among the top and the tips of s
HeaviestKnown(s) ==
    SetMax({s.CumulativeDiff}
           \cup {s.Tips[k].CumulativeDiff : k \in DOMAIN s.Tips})

\* C7: a block delivered before its parent is stored as an orphan; when
\* AddBlock admits a block h, every orphan waiting for h, directly
\* or through other orphans, leaves stats.orphans within that call, is
\* stored with cumulative difficulty parent's + difficulty + side credit, and
\* is a tip unless a promoted child took its place or it went onto the main
\* chain; the promoted orphan that is strictly the heaviest block known is
\* the new top, with TOPO and STATE following its chain.
C7_OrphanResolution ==
    [][ \A h \in CandidateHashes :
          /\ (Delivered(h) /\ ~Has(BLOCK, PrevHash(BlockOf[h])))
             => /\ last'.status = "ok"
                /\ last'.path = "orphan"
                /\ Has(BLOCK', h)
                /\ Has(curStats'.Orphans, h)
          /\ (Delivered(h) /\ last'.status = "ok"
                /\ last'.path \in {"main", "alt"})
             => LET promoted == OrphanDesc(curStats.Orphans, h) IN
             \A o \in promoted :
               /\ ~Has(curStats'.Orphans, o)
               /\ BLOCK'[o].CumulativeDiff =
                     BLOCK'[PrevHash(BLOCK'[o])].CumulativeDiff
                     + BLOCK'[o].Difficulty + SideDiff(BLOCK'[o])
               /\ \/ \E k \in DOMAIN curStats'.Tips :
                         /\ curStats'.Tips[k].Hash = o
                         /\ curStats'.Tips[k].CumulativeDiff =
                               BLOCK'[o].CumulativeDiff
                  \/ /\ Has(TOPO', BLOCK'[o].Height)
                     /\ TOPO'[BLOCK'[o].Height] = o
                  \/ \E c \in promoted : PrevHash(BLOCK'[c]) = o
               /\ ( /\ BLOCK'[o].CumulativeDiff > HeaviestKnown(curStats)
                    /\ BLOCK'[o].CumulativeDiff > BlockOf[h].CumulativeDiff
                    /\ \A c \in promoted \ {o} :
                          BLOCK'[o].CumulativeDiff > BLOCK'[c].CumulativeDiff )
                  => /\ curStats'.TopHash = o
                     /\ TopoChainTo(TOPO', BLOCK', o)
                     /\ SameState(bstate', ChainState(o).bstate) ]_vars

\* a chain of two orphans was promoted by the last AddBlock and its end is
\* the top
C7_Witness ==
    /\ last.status = "ok"
    /\ "deorphaning" \in last.log
    /\ "Reorganize success" \in last.log
    /\ PrevHash(BLOCK[PrevHash(BLOCK[curStats.TopHash])]) = last.hash

\* C8 as stated: no block is stored under the prev_hash of an orphan.
C8_OrphanParentUnknown ==
    \A o \in DOMAIN curStats.Orphans :
        ~Has(BLOCK, curStats.Orphans[o].PrevHash)

\* C8, amended: every orphan is stored, and a block stored under the
\* prev_hash of an orphan is itself an orphan; no orphan waits for a block
\* that has been admitted to the main chain or an alt chain.
C8_OrphanParentNotAdmitted ==
    \A o \in DOMAIN curStats.Orphans :
        /\ Has(BLOCK, o)
        /\ curStats.Orphans[o].Hash = o
        /\ curStats.Orphans[o].PrevHash = PrevHash(BLOCK[o])
        /\ Has(BLOCK, PrevHash(BLOCK[o]))
              => Has(curStats.Orphans, PrevHash(BLOCK[o]))

\* an orphan whose parent is stored, the last AddBlock having promoted
\* other orphans
C8_Witness ==
    /\ \E o \in DOMAIN curStats.Orphans :
          Has(BLOCK, curStats.Orphans[o].PrevHash)
    /\ "deorphaning" \in last.log
    /\ last.status = "ok"

\* the timestamps along TOPO increase strictly with height
TimestampsIncrease ==
    \A k \in DOMAIN TOPO :
        (k > 0 /\ Has(TOPO, k - 1))
        => BLOCK[TOPO[k]].Timestamp > BLOCK[TOPO[k - 1]].Timestamp

\* C9: AddBlock rejects a block with a known, non-orphan parent whose
\* timestamp equals the parent's, the timestamp rule accepts parent's + 1,
\* and the timestamps of the main chain increase strictly with height.
C9_StrictTimestamps ==
    [][ /\ \A h \in CandidateHashes :
              (Delivered(h) /\ ParentAdmitted(h))
              => LET p == BLOCK[PrevHash(BlockOf[h])] IN
                 /\ BlockOf[h].Timestamp = p.Timestamp => last'.status = "err"
                 /\ BlockOf[h].Timestamp = p.Timestamp + 1
                       => checkTimestamp(BlockOf[h], p) = ""
        /\ TimestampsIncrease' ]_vars

\* the nonce the i-th transaction of bl has to carry on the state st
ExpectedNonce(st, bl, i) ==
    LET sender == FromPubKey(TX[bl.Transactions[i]].Sender)
    IN  StateOf(st, sender).LastNonce + 1
        + Cardinality({j \in 1..(i - 1) :
              FromPubKey(TX[bl.Transactions[j]].Sender) = sender})
HasNonceMismatch(st, bl) ==
    \E i \in 1..Len(bl.Transactions) :
        TX[bl.Transactions[i]].Nonce # ExpectedNonce(st, bl, i)

\* C10: a block extending the top that carries a transaction whose nonce is
\* not the sender's last_nonce + 1 is rejected by AddBlock with nothing
\* changed; whenever ApplyBlockToState reports a nonce mismatch, the AddBlock
\* it runs in does not commit and top_hash, TOPO and STATE stay as they were.
C10_NonceRule ==
    [][ /\ \A h \in CandidateHashes :
              ( /\ Delivered(h)
                /\ ParentAdmitted(h)
                /\ PrevHash(BlockOf[h]) = curStats.TopHash
                /\ checkBlock(Ctx, BlockOf[h], BLOCK[curStats.TopHash]) = ""
                /\ HasNonceMismatch(bstate, BlockOf[h]) )
              => /\ last'.status = "err"
                 /\ UNCHANGED <<BLOCK, TOPO, bstate, stats>>
        /\ "transaction has unexpected nonce" \in last'.log
              => /\ last'.status # "ok"
                 /\ UNCHANGED <<TOPO, bstate, stats>> ]_vars

\* AddBlock has just refused a block for the nonce of a transaction
C10_Witness ==
    /\ last.status = "err"
    /\ last.err = "transaction has unexpected nonce"
    /\ last.path = "main"

\* the balances of a STATE bucket as integers, every address included
Balances(st) == [a \in Addresses |-> StateOf(st, a).Balance]

\* the transactions txs[i..] are payable in order from the balances bal,
\* amount + fee taken as a sum of integers
RECURSIVE Payable(_, _, _)
Payable(bal, txs, i) ==
    IF i > Len(txs) THEN TRUE
    ELSE LET tx == TX[txs[i]]
             s == FromPubKey(tx.Sender)
             paid == [bal EXCEPT ![s] = @ - (tx.Amount + tx.Fee)]
         IN  /\ bal[s] >= tx.Amount + tx.Fee
             /\ Payable([paid EXCEPT ![tx.Recipient] = @ + tx.Amount],
                        txs, i + 1)

\* C11: ApplyBlockToState applies the transactions of a block only if each
\* sender's balance is at least amount + fee as a sum of integers, and no
\* balance wraps: the balances after the block sum to the balances before
\* it plus the block reward.
C11_BalanceRule ==
    \A h \in CandidateHashes :
        LET a == ApplyBlockToState(Ctx, BlockOf[h])
        IN  a.err = ""
            => /\ Payable(Balances(bstate), BlockOf[h].Transactions, 1)
               /\ SumBalances(a.bstate, DOMAIN a.bstate)
                      = SumBalances(bstate, DOMAIN bstate)
                        + Reward(BlockOf[h])

\* C12: AddBlock of a block whose hash is already a key of BLOCK, stored as
\* a main-chain, alt-chain or orphan block, returns an error and leaves
\* BLOCK, TOPO, STATE, stats and mempool unchanged.
C12_DuplicateRejected ==
    [][ \A h \in CandidateHashes :
          (last'.hash = h /\ Has(BLOCK, h))
          => /\ last'.status = "err"
             /\ UNCHANGED <<BLOCK, TOPO, bstate, stats, mempool>> ]_vars

\* an orphan, delivered again, was rejected as a duplicate
C12_Witness ==
    /\ last.status = "err"
    /\ last.path = "duplicate"
    /\ Has(BLOCK, last.hash)
    /\ Has(curStats.Orphans, last.hash)

\* C13: every block checkBlock accepts on a stored parent has cumulative
\* difficulty parent's + difficulty + floor(difficulty * 2 * |side blocks|
\* / 3), and every orphan deorphanBlock promotes is stored with the
\* cumulative difficulty that formula gives on its stored parent, which is
\* the value checkBlock's comparison accepts for that block and parent.
C13_CumulativeDiffRule ==
    [][ \A h \in CandidateHashes :
          /\ ( /\ Has(BLOCK, PrevHash(BlockOf[h]))
               /\ checkBlock(Ctx, BlockOf[h], BLOCK[PrevHash(BlockOf[h])])
                     = "" )
             => BlockOf[h].CumulativeDiff =
                   BLOCK[PrevHash(BlockOf[h])].CumulativeDiff
                   + BlockOf[h].Difficulty
                   + ((BlockOf[h].Difficulty
                       * 2 * Len(BlockOf[h].SideBlocks)) \div 3)
          /\ (Delivered(h) /\ last'.status = "ok"
                /\ last'.path \in {"main", "alt"})
             => \A o \in OrphanDesc(curStats.Orphans, h) :
                  /\ BLOCK'[o].CumulativeDiff =
                        BLOCK'[PrevHash(BLOCK'[o])].CumulativeDiff
                        + BLOCK'[o].Difficulty
                        + ((BLOCK'[o].Difficulty
                            * 2 * Len(BLOCK'[o].SideBlocks)) \div 3)
                  /\ checkCumulativeDiff(BLOCK'[o],
                         BLOCK'[PrevHash(BLOCK'[o])], "") = "" ]_vars

\* a block went through checkBlock and promoted two orphans: one whose
\* cumulative difficulty deorphanBlock rewrote and one citing a side block
C13_Witness ==
    /\ last.status = "ok"
    /\ last.path \in {"main", "alt"}
    /\ "deorphaning" \in last.log
    /\ \E o \in DOMAIN BLOCK \ DOMAIN curStats.Orphans :
          /\ PrevHash(BLOCK[o]) = last.hash
          /\ BLOCK[o].CumulativeDiff # BlockOf[o].CumulativeDiff
    /\ \E c \in DOMAIN BLOCK \ DOMAIN curStats.Orphans :
          /\ PrevHash(BLOCK[c]) = last.hash
          /\ Len(BLOCK[c].SideBlocks) > 0

\* the stored blocks a block names in its ancestor list, its parent first
NamedAncestors(bl) ==
    {BLOCK[bl.Ancestors[i]] :
        i \in {j \in 1..Len(bl.Ancestors) : Has(BLOCK, bl.Ancestors[j])}}

\* the commitments already in the ancestor window of bl: the blocks it
\* names as ancestors and their side blocks
AncestorWindow(bl) ==
    {Commitment(a) : a \in NamedAncestors(bl)}
    \cup UNION {SeqRange(a.SideBlocks) : a \in NamedAncestors(bl)}

\* C14: checkBlock rejects a block, on a stored parent, that cites a side
\* block which is the commitment of its parent or of a block named in its
\* ancestors after the parent, or a side block of one of them.
C14_SideBlockDedup ==
    \A h \in SideCandidateHashes :
        ( /\ Has(BLOCK, PrevHash(BlockOf[h]))
          /\ SeqRange(BlockOf[h].SideBlocks)
                \cap AncestorWindow(BlockOf[h]) # {} )
        => checkBlock(Ctx, BlockOf[h], BLOCK[PrevHash(BlockOf[h])]) # ""

\* C15: for every transaction, Deserialize of its serialization succeeds
\* and gives a transaction equal to it in all seven fields, and serializing
\* that again gives the same bytes.
C15_TxRoundTrip ==
    /\ call.stage \in {"deserialized", "reserialized"}
       => /\ call.err = ""
          /\ call.tx2 = call.tx
          /\ call.ser = TxSerialize(call.tx)
    /\ call.stage = "reserialized" => call.ser2 = call.ser

\* a signed transaction whose amount and nonce need more than one byte
\* went through Serialize, Deserialize and Serialize
C15_Witness ==
    /\ call.stage = "reserialized"
    /\ call.tx.Signature # Zeroes(SIGNATURE_SIZE)
    /\ call.tx.Amount = U64 - 1
    /\ call.tx.Nonce = 16384
    /\ call.tx.Subaddr = 128
    /\ Len(call.ser) > base_overhead

\* C16: Prevalidate rejects every transaction whose fee is below
\* FEE_PER_BYTE * vsize, and accepts one whose fee is exactly that when its
\* amount is positive, its sender key is valid and is not the recipient,
\* and its signature is the sender's over the serialization with the
\* signature zeroed.
C16_FeeFloor ==
    call.stage = "prevalidated"
    => /\ call.tx.Fee < FEE_PER_BYTE * GetVirtualSize(call.tx)
          => call.err # ""
       /\ ( /\ call.tx.Fee = FEE_PER_BYTE * GetVirtualSize(call.tx)
            /\ call.tx.Amount > 0
            /\ call.tx.Sender # INVALID_ADDRESS
            /\ call.tx.Sender # call.tx.Recipient
            /\ \E pk \in Privkeys :
                  /\ call.tx.Sender = Public(pk)
                  /\ call.tx.Signature
                        = Sign(TxSerialize([call.tx EXCEPT !.Signature =
                                               Zeroes(SIGNATURE_SIZE)]), pk) )
          => call.err = ""

\* the transaction of TestTransaction was accepted: nonce 1, amount COIN,
\* the fee at the floor, signed by the sender
C16_Witness ==
    /\ call.stage = "prevalidated"
    /\ call.err = ""
    /\ call.tx.Nonce = 1
    /\ call.tx.Amount = COIN
    /\ call.tx.Fee = FEE_PER_BYTE * GetVirtualSize(call.tx)
    /\ call.tx.Signature # Zeroes(SIGNATURE_SIZE)

\* the checks of Prevalidate that come before the proof of work pass
PassesHeaderChecks(b) ==
    /\ b.Version = 0
    /\ b.Difficulty >= MIN_DIFFICULTY
    /\ b.Timestamp <= Time + FUTURE_TIME_LIMIT * 1000
    /\ \A i \in 1..Len(b.OtherChains) :
          /\ b.OtherChains[i].NetworkID # NETWORK_ID
          /\ \A j \in 1..Len(b.OtherChains) :
                i # j => /\ b.OtherChains[i].Hash # b.OtherChains[j].Hash
                         /\ b.OtherChains[i].NetworkID
                               # b.OtherChains[j].NetworkID

\* C17: a block at a checkpointed height that passes the version,
\* difficulty, timestamp and other_chains checks is accepted by Prevalidate
\* exactly when its hash is the checkpoint's hash for that height, whatever
\* its proof of work is.
C17_CheckpointFastPath ==
    ( /\ call.stage = "checked"
      /\ IsCheckpoint(call.bl.Height)
      /\ PassesHeaderChecks(call.bl) )
    => (call.err = "" <=> BlockHash(call.bl) = GetCheckpoint(call.bl.Height))

\* the block fenced at the last checkpoint was accepted although its proof
\* of work does not meet its difficulty
C17_Witness ==
    /\ call.stage = "checked"
    /\ call.err = ""
    /\ call.bl.Height = LastCheckpoint
    /\ BlockHash(call.bl) = GetCheckpoint(LastCheckpoint)
    /\ ~ValidPowValue(call.bl.Pow, call.bl.Difficulty)

\* the node has been fed main-chain blocks only: every stored block is on
\* the main chain and there are no tips and no orphans
MainChainOnly ==
    /\ DOMAIN BLOCK = {TOPO[k] : k \in DOMAIN TOPO}
    /\ DOMAIN curStats.Tips = {}
    /\ DOMAIN curStats.Orphans = {}

C19_BroadcastAfterCommit ==
    [][ last'.sent # {} => last'.status = "ok" ]_vars

\* C20: once Close() has set the shutdown flag, no thread starts a database
\* transaction or a flush of its own: not the sync driver's DB.View, not
\* the flusher's DB.Sync, and none on the closed database.
C20_NoNewTransactions ==
    \A e \in proc.began : ~e.ShuttingDown /\ e.dbOpen

\* C21: every BlockQueue.Update of an AddBlock call (mark downloaded, remove,
\* enqueue of an orphan's parent, remove by height during a reorg) takes the
\* queue lock while the calling thread does not hold the chain write lock.
C21_QueueLockOutsideChainLock ==
    \A i \in 1..Len(last.queue) : "chain" \notin last.queue[i].held

\* the orphans whose parent is never delivered
ParentNeverArrives == {h \in ExpiryHashes : Recipes[h].prev \notin ExpiryHashes}

Expired(h) == Has(curStats.Orphans, h) /\ now > curStats.Orphans[h].Expires

\* C22: an orphan whose parent never arrives is, once its expiry time has
\* passed, eventually removed from stats.orphans.
C22_OrphanExpiry ==
    \A h \in ParentNeverArrives :
        [](Expired(h) => <>(~Has(curStats.Orphans, h)))

\* C23: when a block is applied to the state none of its transactions is
\* left in the mempool, and when RemoveBlockFromState reverses that block
\* each of its transactions is back in the mempool.
C23_MempoolLifecycle ==
    \A h \in PoolHashes :
        LET a == ApplyBlockToState(Ctx, BlockOf[h])
            r == RemoveBlockFromState(a, BlockOf[h])
        IN  a.err = ""
            => /\ SeqRange(BlockOf[h].Transactions) \cap a.mempool = {}
               /\ SeqRange(BlockOf[h].Transactions) \subseteq r.mempool

\* the queue updates of the last AddBlock call that ask for a block by hash
QueueRequests(q) ==
    {[Height |-> q[i].Height, Hash |-> q[i].Hash]
     : i \in {j \in 1..Len(q) : q[j].op = "SetBlock"}}

\* C24: AddBlock of a block whose parent is not in BLOCK, or whose parent is
\* in stats.orphans, stores the block in BLOCK, adds exactly the entry
\* {hash, prev_hash, expires = now + 1 hour} to stats.orphans and leaves
\* STATE, TOPO, the tips and the top of stats unchanged; it asks the queue
\* for prev_hash at height zero when the parent is missing, and asks for
\* nothing when the parent is a stored orphan.
C24_OrphanInsertionFrame ==
    [][ \A h \in CandidateHashes :
          LET prev == PrevHash(BlockOf[h])
              s0 == DeserializeStats(stats)
              s1 == DeserializeStats(stats')
          IN  Delivered(h) /\ (~Has(BLOCK, prev) \/ Has(s0.Orphans, prev))
              => /\ last'.status = "ok"
                 /\ BLOCK' = Put(BLOCK, h, BlockOf[h])
                 /\ s1 = [s0 EXCEPT !.Orphans =
                              Put(@, h, [Hash |-> h, PrevHash |-> prev,
                                         Expires |-> now + Hour])]
                 /\ ~Has(s0.Orphans, h)
                 /\ UNCHANGED <<bstate, TOPO>>
                 /\ QueueRequests(last'.queue)
                       = IF Has(BLOCK, prev) THEN {}
                         ELSE {[Height |-> 0, Hash |-> prev]} ]_vars

\* the last AddBlock stored an orphan whose parent is a stored orphan, and
\* asked the queue for no block
C24_Witness ==
    /\ last.path = "orphan"
    /\ last.status = "ok"
    /\ Has(curStats.Orphans, last.hash)
    /\ Has(curStats.Orphans, curStats.Orphans[last.hash].PrevHash)
    /\ QueueRequests(last.queue) = {}

\* C25: AddBlock of a checked block whose parent is not the top stores the
\* block and leaves every tip of stats.tips under the key equal to the tip's
\* own hash (a tip advanced in place included); when no tip becomes
\* dominant, STATE, TOPO and top_hash are unchanged.
C25_AltchainExtension ==
    [][ \A h \in CandidateHashes :
          LET s0 == DeserializeStats(stats)
              s1 == DeserializeStats(stats')
          IN  Delivered(h) /\ last'.path = "alt" /\ last'.status = "ok"
              => /\ Has(BLOCK', h)
                 /\ \A k \in DOMAIN s1.Tips : s1.Tips[k].Hash = k
                 /\ "Reorg needed" \notin last'.log
                      => /\ UNCHANGED <<bstate, TOPO>>
                         /\ s1.TopHash = s0.TopHash ]_vars

\* the tips of s that the main chain topo holds at their height
AbsorbedTips(s, topo) ==
    {k \in DOMAIN s.Tips : /\ Has(topo, s.Tips[k].Height)
                           /\ topo[s.Tips[k].Height] = s.Tips[k].Hash}

TipHashes(s) == {s.Tips[k].Hash : k \in DOMAIN s.Tips}

\* the top the reorganization in the AddBlock of h replaced: h itself when
\* h was added to the main chain and its orphans then took over
FormerTop(h, path, s0) == IF path = "main" THEN h ELSE s0.TopHash

OnTopo(topo, blocks, hash) ==
    /\ Has(topo, blocks[hash].Height)
    /\ topo[blocks[hash].Height] = hash

\* C26: after an AddBlock in which a reorganization succeeded, on the
\* alt-chain path or in the deorphanage, no tip of stats.tips has the hash
\* TOPO holds at its height, the new top is not a tip, and the top the
\* reorganization replaced is a tip (unless it is a block of the new main
\* chain, which is no tip by the first part).
C26_TipCleanup ==
    [][ \A h \in CandidateHashes :
          LET s0 == DeserializeStats(stats)
              s1 == DeserializeStats(stats')
          IN  /\ Delivered(h)
              /\ last'.status = "ok"
              /\ "Reorganize success" \in last'.log
              => /\ AbsorbedTips(s1, TOPO') = {}
                 /\ s1.TopHash \notin TipHashes(s1)
                 /\ \/ FormerTop(h, last'.path, s0) \in TipHashes(s1)
                    \/ OnTopo(TOPO', BLOCK', FormerTop(h, last'.path, s0))
                 ]_vars

\* C27: fillQueue adds only requests for heights top+1 .. sync_height, adds
\* nothing when the queue already holds PARALLEL_BLOCKS_DOWNLOAD entries or
\* when sync_height <= top, and a fill that starts with at most
\* PARALLEL_BLOCKS_DOWNLOAD entries ends with at most that many.
C27_FillBound ==
    call.stage = "filled"
    => /\ call.before \subseteq call.qt
       /\ call.qt \ call.before
             \subseteq {NewQueuedBlock(i, ZeroHash)
                        : i \in (call.topHeight + 1)..SyncHeight}
       /\ Length(call.before) >= PARALLEL_BLOCKS_DOWNLOAD
             => call.qt = call.before
       /\ SyncHeight <= call.topHeight => call.qt = call.before
       /\ Length(call.before) <= PARALLEL_BLOCKS_DOWNLOAD
             => Length(call.qt) <= PARALLEL_BLOCKS_DOWNLOAD

\* C28: sync_diff never decreases; an AddBlock changes sync_height and
\* sync_diff only to the height and cumulative difficulty of a block it
\* applied whose cumulative difficulty is above the former sync_diff, and an
\* AddBlock that fails leaves both as they were.
C28_SyncWatermark ==
    [][ /\ SyncDiff' >= SyncDiff
        /\ <<SyncHeight, SyncDiff>>' # <<SyncHeight, SyncDiff>>
             => /\ SyncDiff' > SyncDiff
                /\ \E h \in Hashes : /\ BlockOf[h].CumulativeDiff = SyncDiff'
                                     /\ BlockOf[h].Height = SyncHeight'
        /\ last'.status # "ok" => UNCHANGED <<SyncHeight, SyncDiff>> ]_vars

\* the zero value of what a read returns
ZeroValue(op, n) ==
    CASE op = "ReadUint8" -> 0
      [] op = "ReadUint16" -> 0
      [] op = "ReadUint32" -> Zeroes(4)
      [] op = "ReadUint64" -> Zeroes(8)
      [] op = "ReadUvarint" -> 0
      [] op = "ReadFixedByteArray" -> Zeroes(n)
      [] op = "ReadByteSlice" -> <<>>
      [] op = "ReadBool" -> FALSE

\* C29: once a read of Des has failed, Error() is that first error after
\* every later read, and every later read returns the zero value of its
\* type (ReadFixedByteArray(n): n zero bytes) and consumes no byte of Data.
C29_FirstErrorSentinel ==
    /\ call.stage = "read" /\ call.first # "" => Error(call.d) = call.first
    /\ call.stage = "read" /\ Error(call.prev) # ""
         => /\ call.d = call.prev
            /\ call.v = ZeroValue(call.op, call.n)
            /\ ~call.panic

\* a read of a fixed byte array of two bytes after a failed read, with
\* bytes left in Data
C29_Witness ==
    /\ call.stage = "read"
    /\ Error(call.prev) # ""
    /\ call.op = "ReadFixedByteArray"
    /\ call.n = 2
    /\ Len(call.d.Data) >= 2

\* every byte of data has the continuation bit set: a uvarint that the
\* end of the buffer cuts off
CutVarint(data) == Len(data) >= 1 /\ \A i \in 1..Len(data) : data[i] >= 128

\* a length prefix that is complete and declares more bytes than follow it
CutSlice(data, u) == u.n > 0 /\ u.d > Len(data) - u.n

\* the buffer ends before the value that op reads is complete
Truncated(op, n, data) ==
    CASE op = "ReadUint8" -> Len(data) < 1
      [] op = "ReadUint16" -> Len(data) < 2
      [] op = "ReadUint32" -> Len(data) < 4
      [] op = "ReadUint64" -> Len(data) < 8
      [] op = "ReadFixedByteArray" -> Len(data) < n
      [] op = "ReadUvarint" -> CutVarint(data)
      [] op = "ReadByteSlice" ->
            CutVarint(data) \/ CutSlice(data, Uvarint(data, 1, 0, 0))
      [] op = "ReadBool" -> Len(data) < 1

\* C30: every read of Des on a buffer that ends before the value is
\* complete sets the error: a fixed-width integer or a fixed byte array with
\* too few bytes, a slice whose declared length exceeds the bytes left, a
\* uvarint or a length prefix whose last byte has the continuation bit set.
C30_TruncationIsError ==
    call.stage = "read" /\ Error(call.prev) = ""
        /\ Truncated(call.op, call.n, call.prev.Data)
    => Error(call.d) # ""

\* the chains of a blob other than this network's, in order
RECURSIVE OtherChainsOf(_)
OtherChainsOf(chains) ==
    IF chains = <<>> THEN <<>>
    ELSE IF Head(chains).NetworkID = NETWORK_ID
         THEN OtherChainsOf(Tail(chains))
    ELSE <<Head(chains)>> \o OtherChainsOf(Tail(chains))

\* strictly increasing by network id, no hash twice
StrictlySorted(others) ==
    \A i, j \in 1..Len(others) :
        i < j => /\ others[i].NetworkID < others[j].NetworkID
                 /\ others[i].Hash # others[j].Hash

\* this network's id occurs exactly once in the chains
OwnIdOnce(chains) ==
    Cardinality({i \in 1..Len(chains) : chains[i].NetworkID = NETWORK_ID})
        = 1

\* C31: SetMiningBlob succeeds exactly when the blob's other chains are
\* strictly increasing by network id with no network id or hash twice and
\* this network's id occurs exactly once; on success OtherChains is the
\* list of the other chains in order and Timestamp, Nonce and NonceExtra
\* are the blob's.
C31_SetMiningBlob ==
    call.stage = "blob set" =>
        /\ call.err = "" <=> /\ StrictlySorted(OtherChainsOf(call.m.Chains))
                             /\ OwnIdOnce(call.m.Chains)
        /\ call.err = "" =>
              /\ call.bl.OtherChains = OtherChainsOf(call.m.Chains)
              /\ call.bl.Timestamp = call.m.Timestamp
              /\ call.bl.Nonce = call.m.Nonce
              /\ call.bl.NonceExtra = call.m.NonceExtra

\* the offsets at which entry k of the side block's ancestors is found in
\* the block's ancestors
Offsets(b, side, k) ==
    {d \in 0..(Len(b) - k) : side[k] = b[k + d]}

\* the entries of the side block's ancestors that match at some offset
Matching(b, side) == {k \in 1..Len(side) : Offsets(b, side, k) # {}}

SetMin(S) == CHOOSE x \in S : \A y \in S : x <= y

\* every entry after k matches at the offset d, as far as the block's
\* ancestors reach
LaterMatch(b, side, k, d) ==
    \A j \in (k + 1)..Len(side) : j + d <= Len(b) => side[j] = b[j + d]

\* the rule: the first entry that matches anywhere, at its smallest
\* offset, and every later entry at that offset
Aligned(b, side) ==
    /\ Matching(b, side) # {}
    /\ LaterMatch(b, side, SetMin(Matching(b, side)),
                  SetMin(Offsets(b, side, SetMin(Matching(b, side)))))

\* C32: for a side block, checkBlock takes the first entry of the side
\* block's ancestors that matches the block's ancestors at any offset at or
\* after its index, at the smallest such offset, requires every later entry
\* to match at that offset, and rejects the block when no entry matches.
C32_AncestorAlignment ==
    call.stage = "scanned" =>
        /\ call.err = ""
              <=> Aligned(call.bl.Ancestors, call.side.Ancestors)
        /\ call.err = "common block not found"
              <=> Matching(call.bl.Ancestors, call.side.Ancestors) = {}

\* the block h extends the top, passes checkBlock and applies to the state
ExtendsTopAndApplies(h) ==
    /\ PrevHash(BlockOf[h]) = curStats.TopHash
    /\ checkBlock(Ctx, BlockOf[h], BLOCK[curStats.TopHash]) = ""
    /\ ApplyBlockToState(Ctx, BlockOf[h]).err = ""

\* C33: AddBlock of a block that extends the top, passes checkBlock and
\* applies to the state admits it, whatever stats.orphans holds: the call
\* succeeds, the block is stored and it is on the main chain below or at
\* the new top; an orphan that fails when it is promoted and replayed does
\* not make the call fail.
C33_OrphansCannotCensor ==
    [][ \A h \in CandidateHashes :
          Delivered(h) /\ ExtendsTopAndApplies(h)
          => /\ last'.status = "ok"
             /\ Has(BLOCK', h)
             /\ Has(TOPO', BlockOf[h].Height)
             /\ TOPO'[BlockOf[h].Height] = h ]_vars

\* C34: after any sequence of AddBlock calls, every entry of BLOCK holds,
\* under the key h, a block whose Hash() (over its serialization, the
\* difficulty and cumulative difficulty included) is h.
C34_ContentAddressed ==
    \A h \in DOMAIN BLOCK : Hash(BLOCK[h]) = h

\* the block cites one commitment more than once
CitesTwice(bl) ==
    \E i, j \in 1..Len(bl.SideBlocks) :
        i # j /\ bl.SideBlocks[i] = bl.SideBlocks[j]

\* C35: a block whose side_blocks holds the same commitment more than once
\* is rejected when it is checked against its parent, so a side block adds
\* its 2/3 credit to the cumulative difficulty at most once.
C35_NoDoubleCredit ==
    [][ \A h \in SideCandidateHashes :
          Delivered(h) /\ ParentAdmitted(h) /\ CitesTwice(BlockOf[h])
          => last'.status # "ok" /\ ~Has(BLOCK', h) ]_vars

\* the stored blocks that were admitted to a chain: not the genesis block,
\* not an orphan
Admitted ==
    {h \in DOMAIN BLOCK : h # Hash(Genesis) /\ ~Has(curStats.Orphans, h)}

\* C36: every block admitted to the main chain or an alt chain names its
\* parent first in its ancestors and its parent's ancestors after it, so a
\* main-chain block at height h has TOPO[h-1-i] as ancestors[i] wherever
\* that height exists; a block with other ancestors is not admitted.
C36_AncestorConsistency ==
    /\ \A h \in Admitted :
          /\ Has(BLOCK, PrevHash(BLOCK[h]))
          /\ \A i \in 1..(MINIDAG_ANCESTORS - 1) :
                BLOCK[h].Ancestors[i + 1]
                    = BLOCK[PrevHash(BLOCK[h])].Ancestors[i]
    /\ \A height \in DOMAIN TOPO : \A i \in 1..MINIDAG_ANCESTORS :
          height >= i => /\ Has(TOPO, height - i)
                         /\ BLOCK[TOPO[height]].Ancestors[i]
                               = TOPO[height - i]

\* the top hash in the database after an AddBlock that ended as r
TopAfter(r) ==
    IF r.err = "" THEN DeserializeStats(r.stats).TopHash
    ELSE curStats.TopHash

\* C37: the top hash an AddBlock leaves does not depend on the order in
\* which the tips map is iterated: every order gives the top hash the call
\* gave, also when several tips are heavier than the top, two equally heavy
\* ones promoted in one deorphanage pass included.
C37_ForkChoiceIsFunction ==
    [][ \A h \in CandidateHashes :
          Delivered(h)
          => \A r \in AddBlock(Ctx, BlockOf[h]) :
                TopAfter(r) = DeserializeStats(stats').TopHash ]_vars

\* the credits to the address a in the block stored under hash, in the
\* order they are made: the transactions to a, then the coinbase
CreditedBy(a, x) == TX[x].Recipient = a
SentBy(a, x) == FromPubKey(TX[x].Sender) = a
BlockCredits(a, hash) ==
    SelectSeq(BLOCK[hash].Transactions, LAMBDA x : CreditedBy(a, x))
    \o (IF BLOCK[hash].Recipient = a THEN <<hash>> ELSE <<>>)
BlockSends(a, hash) ==
    SelectSeq(BLOCK[hash].Transactions, LAMBDA x : SentBy(a, x))

\* the credits to a, and the transactions a sent, on the main chain up to
\* the height h
RECURSIVE ChainCredits(_, _)
ChainCredits(a, h) ==
    IF h < 0 \/ ~Has(TOPO, h) THEN <<>>
    ELSE ChainCredits(a, h - 1) \o BlockCredits(a, TOPO[h])
RECURSIVE ChainSends(_, _)
ChainSends(a, h) ==
    IF h < 0 \/ ~Has(TOPO, h) THEN <<>>
    ELSE ChainSends(a, h - 1) \o BlockSends(a, TOPO[h])

\* the height of the top block of the main chain
MainHeight == BLOCK[curStats.TopHash].Height

\* C38: in every committed state, for every address a, INTX[a, k] for k up
\* to last_incoming is the id of the k-th credit to a on the main chain (a
\* transaction id, or the block's hash for a coinbase) and OUTTX[a, k] for
\* k up to last_nonce is the main-chain transaction a sent with nonce k,
\* also after a reorganisation.
C38_TxIndexConsistency ==
    \A a \in DOMAIN bstate :
        /\ \A k \in 1..bstate[a].LastIncoming :
              /\ Has(INTX, <<a, k>>)
              /\ k <= Len(ChainCredits(a, MainHeight))
              /\ INTX[<<a, k>>] = ChainCredits(a, MainHeight)[k]
        /\ \A k \in 1..bstate[a].LastNonce :
              /\ Has(OUTTX, <<a, k>>)
              /\ k <= Len(ChainSends(a, MainHeight))
              /\ OUTTX[<<a, k>>] = ChainSends(a, MainHeight)[k]
              /\ TX[OUTTX[<<a, k>>]].Nonce = k

\* t waits for the lock l; t holds it
Waits(t, l) ==
    /\ call.pc[t] \in 1..Len(Program(t))
    /\ Program(t)[call.pc[t]] = Acquire(l)
Holds(t, l) == call.owner[l] = t

\* one step of the transitive closure of a relation on the locks
Twice(R) ==
    R \cup {<<a, b>> \in Locks \X Locks :
               \E m \in Locks : <<a, m>> \in R /\ <<m, b>> \in R}
Closure(R) == Twice(Twice(Twice(R)))

\* no lock comes, directly or through others, before itself in the order
\* "held while requesting"
NoLockCycle == \A l \in Locks : <<l, l>> \notin Closure(call.order)

C40_MainChainLinked ==
    /\ Has(TOPO, curStats.TopHeight)
    /\ TOPO[curStats.TopHeight] = curStats.TopHash
    /\ \A h \in DOMAIN TOPO : h <= curStats.TopHeight
    /\ \A h \in DOMAIN TOPO :
          h > 0 => /\ Has(TOPO, h - 1)
                   /\ Has(BLOCK, TOPO[h])
                   /\ PrevHash(BLOCK[TOPO[h]]) = TOPO[h - 1]
    /\ Has(BLOCK, curStats.TopHash)
    /\ curStats.CumulativeDiff = BLOCK[curStats.TopHash].CumulativeDiff
====
